---- MODULE Spec2Model ----
(***************************************************************************)
(* MicroPulse: the event-sourced order engine (OrderAggregate,             *)
(* OrderRepository, EventStore, OrderService) and the inventory            *)
(* reservation saga (Inventory model, InventoryService, order event        *)
(* handlers).                                                              *)
(*                                                                         *)
(* Order side: every OrderService command is a process that loads the      *)
(* aggregate, runs the command in memory, and then saves it: one insert    *)
(* into the event store per uncommitted event, then the projection upsert. *)
(* EventStore.appendEvent receives the session inside its metadata         *)
(* argument and calls eventDoc.save() with no options, so each insert is   *)
(* its own write; only the projection upsert carries the session.          *)
(*                                                                         *)
(* Inventory side: every consumer instance handles one message at a time;  *)
(* a document is read (findByProductId), changed in memory, and written    *)
(* back by save(), which sends the modified paths and the pushed movement. *)
(***************************************************************************)
EXTENDS Integers, Sequences, FiniteSets, TLC

VARIABLES
    eventStore,   \* the eventstore collection: a set of documents
    projection,   \* the orders collection (read model), by order id
    proc,         \* one record per in-flight OrderService request
    bus,          \* events published to micropulse.events, in order
    inventory,    \* the inventories collection, by product id
    inst,         \* one record per inventory consumer instance
    aggObj,       \* an OrderAggregate object driven directly by its commands
    call,         \* the last command called on that object, and its outcome
    queues,       \* the broker's queues: the messages waiting in each
    consumed,     \* what the inventory service's consumer did with each message
    breaker,      \* the CircuitBreaker of a ResilientExecutor
    now,          \* the clock, in milliseconds
    exec,         \* one record per caller of ResilientExecutor.execute
    lastCall,     \* the last call that was rejected or settled, and how
    streak,       \* calls that ended in a non-expected failure since the
                  \* last call that ended otherwise
    trip          \* one inventory document taken through reserve and release

vars == <<eventStore, projection, proc, bus, inventory, inst,
          aggObj, call, queues, consumed,
          breaker, now, exec, lastCall, streak, trip>>

orderVars == <<eventStore, projection, proc, bus>>
invVars == <<inventory, inst>>
aggVars == <<aggObj, call>>
brokerVars == <<queues, consumed>>

(* what the order, inventory and aggregate steps never touch *)
cbVars == <<breaker, now, exec, lastCall, streak>>
otherVars == <<brokerVars, cbVars, trip>>

----------------------------------------------------------------------------
(* Bounds *)

MaxEvents == 4         \* no request starts once the event store holds this many events
MaxAggVersion == 7     \* no command is called on an aggregate object at this version
MaxMovements == 6      \* no message is delivered once the movement logs hold this many entries
MaxPublished == 3      \* nothing is published once this many messages are queued or consumed
MaxTicks == 4          \* the clock stops after this many ticks
MaxQuantity == 4       \* quantities of the documents and requests of a round trip

Procs == {"r1", "r2"}
Orders == {"o1", "o2"}
Products == {"p1", "p2"}
Insts == {"c1", "c2"}
Callers == {"a", "b"}

----------------------------------------------------------------------------
(* shared/types: OrderStatus *)

PENDING == "pending"
CONFIRMED == "confirmed"
PROCESSING == "processing"
SHIPPED == "shipped"
DELIVERED == "delivered"
CANCELLED == "cancelled"

OrderStatus == {PENDING, CONFIRMED, PROCESSING, SHIPPED, DELIVERED, CANCELLED}

NoRefund == 0 - 1      \* refundAmount: undefined

Item(p, q, pr) == [productId |-> p, quantity |-> q, price |-> pr]

RECURSIVE SumTotal(_)
SumTotal(items) ==
    IF items = <<>> THEN 0
    ELSE Head(items).price * Head(items).quantity + SumTotal(Tail(items))

----------------------------------------------------------------------------
(* Domain events (shared/utils/src/eventBus.ts, createEvent).  The event   *)
(* id is a fresh string per created event; it is modelled by the request   *)
(* that created the event, which together with (aggregateId, version)      *)
(* identifies the event.  Every event carries the same data fields; the    *)
(* fields an event type does not set keep the empty value.                 *)

NoData ==
    [items |-> <<>>, totalAmount |-> 0, paymentMethod |-> "",
     oldStatus |-> "", newStatus |-> "", paymentStatus |-> "",
     refundAmount |-> NoRefund]

createEvent(eid, type, aggregateId, data, version) ==
    [id |-> eid, type |-> type, aggregateId |-> aggregateId,
     aggregateType |-> "Order", version |-> version, data |-> data]

----------------------------------------------------------------------------
(* OrderAggregate (services/order-service/src/domain/OrderAggregate.ts)    *)

NewAggregate(id) ==
    [id |-> id, items |-> <<>>, totalAmount |-> 0, status |-> PENDING,
     paymentMethod |-> "", paymentStatus |-> "pending", version |-> 0,
     uncommittedEvents |-> <<>>]

(* a transition table in which a delivered order can be reopened *)
ReopenTransitions ==
    [s \in OrderStatus |->
        CASE s = PENDING    -> {CONFIRMED, CANCELLED}
          [] s = CONFIRMED  -> {PROCESSING, CANCELLED}
          [] s = PROCESSING -> {SHIPPED, CANCELLED}
          [] s = SHIPPED    -> {DELIVERED}
          [] s = DELIVERED  -> {PROCESSING}
          [] s = CANCELLED  -> {}]

validTransitions ==
    [s \in OrderStatus |->
        CASE s = PENDING    -> {CONFIRMED, CANCELLED}
          [] s = CONFIRMED  -> {PROCESSING, CANCELLED}
          [] s = PROCESSING -> {SHIPPED, CANCELLED}
          [] s = SHIPPED    -> {DELIVERED}
          [] s = DELIVERED  -> {}
          [] s = CANCELLED  -> {}]

(* a transition check that also lets a shipped order be cancelled *)
LaxTransition(currentStatus, newStatus) ==
    newStatus \in validTransitions[currentStatus]
        \/ (currentStatus = SHIPPED /\ newStatus = CANCELLED)

isValidStatusTransition(currentStatus, newStatus) ==
    newStatus \in validTransitions[currentStatus]

(* an OrderCreated handler that forgets the total *)
applyEventNoTotal(agg, event) ==
    LET applied ==
          CASE event.type = "OrderCreated" ->
                 [agg EXCEPT !.items = event.data.items,
                             !.paymentMethod = event.data.paymentMethod,
                             !.status = PENDING]
            [] event.type = "OrderStatusUpdated" ->
                 [agg EXCEPT !.status = event.data.newStatus]
            [] event.type = "OrderPaymentProcessed" ->
                 [agg EXCEPT !.paymentStatus = event.data.paymentStatus]
            [] OTHER -> agg
    IN [applied EXCEPT !.version = event.version,
                       !.uncommittedEvents = Append(agg.uncommittedEvents, event)]

applyEvent(agg, event) ==
    LET applied ==
          CASE event.type = "OrderCreated" ->
                 [agg EXCEPT !.items = event.data.items,
                             !.totalAmount = event.data.totalAmount,
                             !.paymentMethod = event.data.paymentMethod,
                             !.status = PENDING]
            [] event.type = "OrderStatusUpdated" ->
                 [agg EXCEPT !.status = event.data.newStatus]
            [] event.type = "OrderPaymentProcessed" ->
                 [agg EXCEPT !.paymentStatus = event.data.paymentStatus]
            [] OTHER -> agg      \* OrderShipped, OrderCancelled: no state
    IN [applied EXCEPT !.version = event.version,
                       !.uncommittedEvents = Append(agg.uncommittedEvents, event)]

(* A command returns the aggregate as the call leaves it and the error it  *)
(* threw ("" when it returned normally).                                   *)
Ok(agg) == [agg |-> agg, err |-> ""]
Throw(agg, e) == [agg |-> agg, err |-> e]

(* what a refused command throws: new Error(message), a plain Error whose  *)
(* name is Error and which carries no status code (0)                      *)
CommandError(message) ==
    [name |-> "Error", statusCode |-> 0, mentions |-> {}, message |-> message]

(* a createOrder that does not look at the version *)
createOrderAgain(agg, items, paymentMethod, eid) ==
    IF Len(items) = 0 THEN Throw(agg, "Order must have at least one item")
    ELSE IF SumTotal(items) <= 0 THEN Throw(agg, "Order total must be greater than zero")
    ELSE Ok(applyEvent(agg,
              createEvent(eid, "OrderCreated", agg.id,
                  [NoData EXCEPT !.items = items,
                                 !.totalAmount = SumTotal(items),
                                 !.paymentMethod = paymentMethod],
                  agg.version + 1)))

createOrder(agg, items, paymentMethod, eid) ==
    IF agg.version > 0 THEN Throw(agg, "Order already exists")
    ELSE IF Len(items) = 0 THEN Throw(agg, "Order must have at least one item")
    ELSE IF SumTotal(items) <= 0 THEN Throw(agg, "Order total must be greater than zero")
    ELSE Ok(applyEvent(agg,
              createEvent(eid, "OrderCreated", agg.id,
                  [NoData EXCEPT !.items = items,
                                 !.totalAmount = SumTotal(items),
                                 !.paymentMethod = paymentMethod],
                  agg.version + 1)))

updateStatus(agg, newStatus, eid) ==
    IF agg.version = 0 THEN Throw(agg, "Order does not exist")
    ELSE IF agg.status = newStatus THEN Ok(agg)
    ELSE IF ~isValidStatusTransition(agg.status, newStatus)
         THEN Throw(agg, "Invalid status transition")
    ELSE Ok(applyEvent(agg,
              createEvent(eid, "OrderStatusUpdated", agg.id,
                  [NoData EXCEPT !.oldStatus = agg.status,
                                 !.newStatus = newStatus],
                  agg.version + 1)))

(* a payment that confirms a pending order whatever its outcome *)
processPaymentAnyOutcome(agg, paymentStatus, eid) ==
    IF agg.version = 0 THEN Throw(agg, "Order does not exist")
    ELSE LET a1 == applyEvent(agg,
                      createEvent(eid, "OrderPaymentProcessed", agg.id,
                          [NoData EXCEPT !.paymentStatus = paymentStatus],
                          agg.version + 1))
         IN IF a1.status = PENDING
            THEN updateStatus(a1, CONFIRMED, eid)
            ELSE Ok(a1)

processPayment(agg, paymentStatus, eid) ==
    IF agg.version = 0 THEN Throw(agg, "Order does not exist")
    ELSE LET a1 == applyEvent(agg,
                      createEvent(eid, "OrderPaymentProcessed", agg.id,
                          [NoData EXCEPT !.paymentStatus = paymentStatus],
                          agg.version + 1))
         IN IF paymentStatus = "completed" /\ a1.status = PENDING
            THEN updateStatus(a1, CONFIRMED, eid)
            ELSE Ok(a1)

(* a shipOrder that does not look at the status *)
shipOrderAnyStatus(agg, eid) ==
    IF agg.version = 0 THEN Throw(agg, "Order does not exist")
    ELSE updateStatus(
            applyEvent(agg, createEvent(eid, "OrderShipped", agg.id, NoData,
                                        agg.version + 1)),
            SHIPPED, eid)

shipOrder(agg, eid) ==
    IF agg.version = 0 THEN Throw(agg, "Order does not exist")
    ELSE IF agg.status # PROCESSING
         THEN Throw(agg, "Order must be in processing status to ship")
    ELSE updateStatus(
            applyEvent(agg, createEvent(eid, "OrderShipped", agg.id, NoData,
                                        agg.version + 1)),
            SHIPPED, eid)

(* a cancelOrder that refuses delivered orders only *)
cancelOrderTwice(agg, refundAmount, eid) ==
    IF agg.version = 0 THEN Throw(agg, "Order does not exist")
    ELSE IF agg.status = DELIVERED
         THEN Throw(agg, "Cannot cancel order")
    ELSE updateStatus(
            applyEvent(agg, createEvent(eid, "OrderCancelled", agg.id,
                                        [NoData EXCEPT !.refundAmount = refundAmount],
                                        agg.version + 1)),
            CANCELLED, eid)

cancelOrder(agg, refundAmount, eid) ==
    IF agg.version = 0 THEN Throw(agg, "Order does not exist")
    ELSE IF agg.status = DELIVERED \/ agg.status = CANCELLED
         THEN Throw(agg, "Cannot cancel order")
    ELSE updateStatus(
            applyEvent(agg, createEvent(eid, "OrderCancelled", agg.id,
                                        [NoData EXCEPT !.refundAmount = refundAmount],
                                        agg.version + 1)),
            CANCELLED, eid)

RECURSIVE ApplyAll(_, _)
ApplyAll(agg, events) ==
    IF events = <<>> THEN agg
    ELSE ApplyAll(applyEvent(agg, Head(events)), Tail(events))

(* fromEvents is only called on a non-empty stream (getById throws         *)
(* NotFound before it on an empty one).                                    *)
fromEvents(events) ==
    [ApplyAll(NewAggregate(events[1].aggregateId), events)
        EXCEPT !.uncommittedEvents = <<>>]

----------------------------------------------------------------------------
(* EventStore model (order-service models/EventStore)                      *)

(* a collection without the unique index never reports a duplicate key *)
NoUniqueIndex(store, aggregateId, version) == FALSE

(* unique index { aggregateId: 1, version: 1 } *)
DuplicateKey(store, aggregateId, version) ==
    \E d \in store : d.aggregateId = aggregateId /\ d.version = version

(* a document that drops the payload of the event *)
EventDocNoData(event) ==
    [eventId |-> event.id, eventType |-> event.type,
     aggregateId |-> event.aggregateId, aggregateType |-> event.aggregateType,
     version |-> event.version, eventData |-> NoData]

(* the document appendEvent builds from a domain event *)
EventDoc(event) ==
    [eventId |-> event.id, eventType |-> event.type,
     aggregateId |-> event.aggregateId, aggregateType |-> event.aggregateType,
     version |-> event.version, eventData |-> event.data]

(* an append that writes the document before the key is checked *)
AppendThenCheck(store, event) ==
    [store |-> store \cup {EventDoc(event)},
     err |-> IF DuplicateKey(store, event.aggregateId, event.version)
             THEN "Conflict" ELSE ""]

(* appendEvent: insert one document; the unique index rejects a used key *)
appendEvent(store, event) ==
    IF DuplicateKey(store, event.aggregateId, event.version)
    THEN [store |-> store, err |-> "Conflict"]
    ELSE [store |-> store \cup {EventDoc(event)}, err |-> ""]

RECURSIVE SortByVersion(_)
SortByVersion(docs) ==
    IF docs = {} THEN <<>>
    ELSE LET first == CHOOSE d \in docs : \A e \in docs : d.version <= e.version
         IN <<first>> \o SortByVersion(docs \ {first})

(* getEventsForAggregate: find({aggregateId}).sort({version: 1}) *)
getEventsForAggregate(store, aggregateId) ==
    SortByVersion({d \in store : d.aggregateId = aggregateId})

----------------------------------------------------------------------------
(* OrderRepository                                                         *)

(* getById: event store documents to domain events *)
toDomainEvent(eventDoc) ==
    [id |-> eventDoc.eventId, type |-> eventDoc.eventType,
     aggregateId |-> eventDoc.aggregateId,
     aggregateType |-> eventDoc.aggregateType,
     version |-> eventDoc.version, data |-> eventDoc.eventData]

toDomainEvents(docs) == [i \in 1..Len(docs) |-> toDomainEvent(docs[i])]

(* getById on a non-empty stream *)
getById(store, orderId) ==
    fromEvents(toDomainEvents(getEventsForAggregate(store, orderId)))

(* Order schema enums *)
PaymentMethods == {"credit_card", "debit_card", "paypal", "bank_transfer"}
PaymentStatuses == {"pending", "processing", "completed", "failed", "refunded"}

(* a new orders document before $set: schema defaults *)
NewOrderDoc ==
    [items |-> <<>>, totalAmount |-> 0, status |-> PENDING, version |-> 1,
     paymentMethod |-> "", paymentStatus |-> "pending",
     paidAt |-> FALSE, shippedAt |-> FALSE]

RECURSIVE SetFromEvents(_, _)
SetFromEvents(doc, events) ==
    IF events = <<>> THEN doc
    ELSE LET e == Head(events)
             d == CASE e.type = "OrderCreated" ->
                         [doc EXCEPT !.paymentMethod = e.data.paymentMethod,
                                     !.paymentStatus = "pending"]
                    [] e.type = "OrderPaymentProcessed" ->
                         [doc EXCEPT !.paymentStatus = e.data.paymentStatus,
                                     !.paidAt = (e.data.paymentStatus = "completed")
                                                    \/ doc.paidAt]
                    [] e.type = "OrderShipped" ->
                         [doc EXCEPT !.shippedAt = TRUE]
                    [] OTHER -> doc
         IN SetFromEvents(d, Tail(events))

(* updateProjection: the document after { $set: projectionData } *)
projectionData(old, aggregate) ==
    SetFromEvents([old EXCEPT !.items = aggregate.items,
                              !.totalAmount = aggregate.totalAmount,
                              !.status = aggregate.status,
                              !.version = aggregate.version],
                  aggregate.uncommittedEvents)

(* runValidators on the paths that are set *)
ValidProjection(doc, aggregate) ==
    /\ doc.totalAmount >= 0
    /\ doc.status \in OrderStatus
    /\ Len(doc.items) > 0
    /\ \A i \in 1..Len(doc.items) :
           doc.items[i].quantity >= 1 /\ doc.items[i].price >= 0
    /\ \A i \in 1..Len(aggregate.uncommittedEvents) :
           LET e == aggregate.uncommittedEvents[i]
           IN /\ e.type = "OrderCreated" => e.data.paymentMethod \in PaymentMethods
              /\ e.type = "OrderPaymentProcessed"
                    => e.data.paymentStatus \in PaymentStatuses

----------------------------------------------------------------------------
(* OrderService requests.  A request record:                               *)
(*   pc      "idle", "saving" (inside the append loop of save),            *)
(*           "projecting" (appends done, projection upsert pending),       *)
(*           "saved" (save returned), "failed" (save threw)                *)
(*   cmd, order, arg   the command, the order id, its argument             *)
(*   loaded  the aggregate as getById returned it (or the new aggregate)   *)
(*   agg     the aggregate after the command                               *)
(*   idx     the uncommitted event the append loop is at                   *)
(*   err     the error save threw                                          *)
(* A request whose command throws, or emits no event, touches neither the  *)
(* stores nor the bus: it ends where it began.                             *)

ItemLists ==
    { <<>>,
      <<Item("p1", 1, 0)>>,
      <<Item("p1", 1, 3), Item("p2", 1, 2)>> }

PaymentMethodInputs == {"credit_card"}
PaymentStatusInputs == {"completed"}
AggPaymentStatusInputs == {"completed", "failed"}

(* item lists handed to the aggregate directly: also a line with a         *)
(* quantity above one and a list whose total is negative                   *)
AggItemLists ==
    ItemLists \cup { <<Item("p1", 2, 10)>>,
                     <<Item("p1", 1, 0 - 2), Item("p2", 1, 1)>> }

IdleRequest ==
    [pc |-> "idle", cmd |-> "", order |-> "", arg |-> "",
     loaded |-> NewAggregate(""), agg |-> NewAggregate(""),
     idx |-> 0, err |-> ""]

Free(p) == proc[p].pc = "idle"

Stream(o) == getEventsForAggregate(eventStore, o)

(* what the request does after the in-memory command returned or threw *)
AfterCommand(p, cmd, o, arg, loaded, r) ==
    /\ proc' = [proc EXCEPT ![p] =
          IF r.err # "" \/ r.agg.uncommittedEvents = <<>>
          THEN IdleRequest
          ELSE [pc |-> "saving", cmd |-> cmd, order |-> o, arg |-> arg,
                loaded |-> loaded, agg |-> r.agg, idx |-> 1, err |-> ""]]
    /\ UNCHANGED <<eventStore, projection, bus>>

NotFound(p) ==
    /\ proc' = [proc EXCEPT ![p] = IdleRequest]
    /\ UNCHANGED <<eventStore, projection, bus>>

(* an id is unused when no stored event and no request in flight has it *)
Unused(o) ==
    /\ \A d \in eventStore : d.aggregateId # o
    /\ \A q \in Procs : proc[q].order # o

(* the order in which fresh ids are handed out *)
IssuedBefore == { <<"o1", "o2">> }

(* OrderService.createOrder up to the call of save.  The new aggregate     *)
(* gets a fresh id (uuidv4): the next one that no stored event and no      *)
(* request in flight uses.                                                 *)
CreateOrder(p, o, items, paymentMethod, itemsValid) ==
    /\ Free(p)
    /\ Cardinality(eventStore) < MaxEvents
    /\ Unused(o)
    /\ \A x \in Orders : <<x, o>> \in IssuedBefore => ~Unused(x)
    /\ IF ~itemsValid      \* validateOrderItems threw
       THEN NotFound(p)
       ELSE AfterCommand(p, "createOrder", o, "", NewAggregate(o),
                         createOrder(NewAggregate(o), items, paymentMethod, p))
    /\ UNCHANGED <<invVars, aggVars, otherVars>>

(* OrderService.updateOrderStatus up to the call of save *)
UpdateOrderStatus(p, o, newStatus) ==
    /\ Free(p)
    /\ Cardinality(eventStore) < MaxEvents
    /\ IF Stream(o) = <<>> THEN NotFound(p)
       ELSE AfterCommand(p, "updateStatus", o, newStatus, getById(eventStore, o),
                         updateStatus(getById(eventStore, o), newStatus, p))
    /\ UNCHANGED <<invVars, aggVars, otherVars>>

(* OrderService.processPayment up to the call of save *)
ProcessPayment(p, o, paymentStatus) ==
    /\ Free(p)
    /\ Cardinality(eventStore) < MaxEvents
    /\ IF Stream(o) = <<>> THEN NotFound(p)
       ELSE AfterCommand(p, "processPayment", o, paymentStatus,
                         getById(eventStore, o),
                         processPayment(getById(eventStore, o), paymentStatus, p))
    /\ UNCHANGED <<invVars, aggVars, otherVars>>

(* OrderService.shipOrder up to the call of save *)
ShipOrder(p, o) ==
    /\ Free(p)
    /\ Cardinality(eventStore) < MaxEvents
    /\ IF Stream(o) = <<>> THEN NotFound(p)
       ELSE AfterCommand(p, "shipOrder", o, "", getById(eventStore, o),
                         shipOrder(getById(eventStore, o), p))
    /\ UNCHANGED <<invVars, aggVars, otherVars>>

(* a cancel request that refunds pending orders only *)
CancelOrderRefundPending(p, o) ==
    /\ Free(p)
    /\ Cardinality(eventStore) < MaxEvents
    /\ IF Stream(o) = <<>> THEN NotFound(p)
       ELSE LET aggregate == getById(eventStore, o)
                refundAmount == IF aggregate.status = PENDING
                                THEN aggregate.totalAmount ELSE NoRefund
            IN AfterCommand(p, "cancelOrder", o, "", aggregate,
                            cancelOrder(aggregate, refundAmount, p))
    /\ UNCHANGED <<invVars, aggVars, otherVars>>

(* OrderService.cancelOrder up to the call of save *)
CancelOrder(p, o) ==
    /\ Free(p)
    /\ Cardinality(eventStore) < MaxEvents
    /\ IF Stream(o) = <<>> THEN NotFound(p)
       ELSE LET aggregate == getById(eventStore, o)
                refundAmount == IF aggregate.status = CONFIRMED
                                THEN aggregate.totalAmount ELSE NoRefund
            IN AfterCommand(p, "cancelOrder", o, "", aggregate,
                            cancelOrder(aggregate, refundAmount, p))
    /\ UNCHANGED <<invVars, aggVars, otherVars>>

(* an append loop that replaces the stored event of a used key *)
SaveAppendOverwrite(p) ==
    /\ proc[p].pc = "saving"
    /\ LET event == proc[p].agg.uncommittedEvents[proc[p].idx]
       IN /\ eventStore' =
                {d \in eventStore :
                    ~(d.aggregateId = event.aggregateId /\ d.version = event.version)}
                \cup {EventDoc(event)}
          /\ proc' = [proc EXCEPT ![p] =
                [@ EXCEPT !.idx = @ + 1,
                          !.pc = IF proc[p].idx = Len(proc[p].agg.uncommittedEvents)
                                 THEN "projecting" ELSE "saving"]]
    /\ UNCHANGED <<projection, bus>>
    /\ UNCHANGED <<invVars, aggVars, otherVars>>

(* OrderRepository.save, one iteration of the append loop.  A rejected     *)
(* insert throws out of withTransaction and out of the request.            *)
SaveAppend(p) ==
    /\ proc[p].pc = "saving"
    /\ LET r == appendEvent(eventStore, proc[p].agg.uncommittedEvents[proc[p].idx])
       IN /\ eventStore' = r.store
          /\ proc' = [proc EXCEPT ![p] =
                IF r.err # ""
                THEN [@ EXCEPT !.pc = "failed", !.err = r.err]
                ELSE [@ EXCEPT !.idx = @ + 1,
                               !.pc = IF proc[p].idx = Len(proc[p].agg.uncommittedEvents)
                                      THEN "projecting" ELSE "saving"]]
    /\ UNCHANGED <<projection, bus>>
    /\ UNCHANGED <<invVars, aggVars, otherVars>>

(* OrderRepository.save, after the loop: updateProjection, commit of the   *)
(* transaction, markEventsAsCommitted.  The upsert is the only write that  *)
(* carries the session, so it takes effect at the commit.                  *)
SaveProjection(p) ==
    /\ proc[p].pc = "projecting"
    /\ LET o == proc[p].order
           old == IF o \in DOMAIN projection THEN projection[o] ELSE NewOrderDoc
           doc == projectionData(old, proc[p].agg)
       IN IF ValidProjection(doc, proc[p].agg)
          THEN /\ projection' = [x \in DOMAIN projection \cup {o} |->
                                    IF x = o THEN doc ELSE projection[x]]
               /\ proc' = [proc EXCEPT ![p].pc = "saved",
                                       ![p].agg.uncommittedEvents = <<>>]
          ELSE /\ projection' = projection
               /\ proc' = [proc EXCEPT ![p].pc = "failed",
                                       ![p].err = "ValidationError"]
    /\ UNCHANGED <<eventStore, bus>>
    /\ UNCHANGED <<invVars, aggVars, otherVars>>

(* OrderRepository.rebuildProjection: getById, then updateProjection of    *)
(* the rehydrated aggregate in a transaction of its own                    *)
RebuildProjection(o) ==
    /\ Stream(o) # <<>>
    /\ LET aggregate == getById(eventStore, o)
           old == IF o \in DOMAIN projection THEN projection[o] ELSE NewOrderDoc
           doc == projectionData(old, aggregate)
       IN IF ValidProjection(doc, aggregate)
          THEN projection' = [x \in DOMAIN projection \cup {o} |->
                                 IF x = o THEN doc ELSE projection[x]]
          ELSE projection' = projection
    /\ UNCHANGED <<eventStore, proc, bus>>
    /\ UNCHANGED <<invVars, aggVars, otherVars>>

(* routing key `order.${event.type.toLowerCase()}` *)
toLowerCase(type) ==
    CASE type = "OrderCreated" -> "ordercreated"
      [] type = "OrderStatusUpdated" -> "orderstatusupdated"
      [] type = "OrderPaymentProcessed" -> "orderpaymentprocessed"
      [] type = "OrderShipped" -> "ordershipped"
      [] type = "OrderCancelled" -> "ordercancelled"

publish(exchange, routingKey, event) ==
    [exchange |-> exchange, routingKey |-> routingKey, event |-> event]

(* the service after save returned: publish aggregate.getUncommittedEvents(), *)
(* then return to the caller                                                  *)
PublishEvents(p) ==
    /\ proc[p].pc = "saved"
    /\ LET events == proc[p].agg.uncommittedEvents
       IN bus' = bus \o [i \in 1..Len(events) |->
                            publish("micropulse.events",
                                    <<"order", toLowerCase(events[i].type)>>,
                                    events[i])]
    /\ proc' = [proc EXCEPT ![p] = IdleRequest]
    /\ UNCHANGED <<eventStore, projection>>
    /\ UNCHANGED <<invVars, aggVars, otherVars>>

(* a caller that publishes the buffered events although save threw *)
RespondPublishing(p) ==
    /\ proc[p].pc = "failed"
    /\ LET events == proc[p].agg.uncommittedEvents
       IN bus' = bus \o [i \in 1..Len(events) |->
                            publish("micropulse.events",
                                    <<"order", toLowerCase(events[i].type)>>,
                                    events[i])]
    /\ proc' = [proc EXCEPT ![p] = IdleRequest]
    /\ UNCHANGED <<eventStore, projection>>
    /\ UNCHANGED <<invVars, aggVars, otherVars>>

(* the error of save propagates to the caller *)
Respond(p) ==
    /\ proc[p].pc = "failed"
    /\ proc' = [proc EXCEPT ![p] = IdleRequest]
    /\ UNCHANGED <<eventStore, projection, bus>>
    /\ UNCHANGED <<invVars, aggVars, otherVars>>

OrderIdle ==
    /\ eventStore = {}
    /\ projection = << >>
    /\ proc = [p \in Procs |-> IdleRequest]
    /\ bus = <<>>

OrderNext ==
    \/ \E p \in Procs, o \in Orders, items \in ItemLists,
          pm \in PaymentMethodInputs, v \in BOOLEAN :
            CreateOrder(p, o, items, pm, v)
    \/ \E p \in Procs, o \in Orders, s \in OrderStatus : UpdateOrderStatus(p, o, s)
    \/ \E p \in Procs, o \in Orders, ps \in PaymentStatusInputs : ProcessPayment(p, o, ps)
    \/ \E p \in Procs, o \in Orders : ShipOrder(p, o)
    \/ \E p \in Procs, o \in Orders : CancelOrder(p, o)
    \/ \E p \in Procs : SaveAppend(p)
    \/ \E p \in Procs : SaveProjection(p)
    \/ \E p \in Procs : PublishEvents(p)
    \/ \E p \in Procs : Respond(p)

(* the service together with the repository's maintenance operation *)
RepoNext ==
    \/ OrderNext
    \/ \E o \in Orders : RebuildProjection(o)

----------------------------------------------------------------------------
(* Inventory model (inventory-service models/Inventory)                    *)

Movement(type, quantity, reference) ==
    [type |-> type, quantity |-> quantity, reference |-> reference]

NewInventory(initialStock) ==
    [quantity |-> initialStock, reservedQuantity |-> 0,
     movements |-> IF initialStock > 0
                   THEN <<Movement("IN", initialStock, "")>> ELSE <<>>]

Max(a, b) == IF a >= b THEN a ELSE b

availableQuantity(doc) == Max(0, doc.quantity - doc.reservedQuantity)

(* schema validators and the pre('save') hooks, run by save() on the       *)
(* document in memory                                                      *)
validateSave(doc) ==
    IF doc.quantity < 0 THEN "Quantity cannot be negative"
    ELSE IF doc.reservedQuantity < 0 THEN "Reserved quantity cannot be negative"
    ELSE IF doc.reservedQuantity > doc.quantity
         THEN "Reserved quantity cannot exceed total quantity"
    ELSE ""

(* The instance methods up to their call of save(): the document in memory *)
(* after the method, or the error the method threw.                        *)
Mem(doc) == [doc |-> doc, err |-> ""]
Thrown(doc, e) == [doc |-> doc, err |-> e]

(* a reserve that keeps no record of the reservation *)
reserveUnlogged(doc, quantity, reference) ==
    IF quantity <= 0 THEN Thrown(doc, "Reserve quantity must be positive")
    ELSE IF availableQuantity(doc) < quantity
         THEN Thrown(doc, "Insufficient available quantity to reserve")
    ELSE Mem([doc EXCEPT !.reservedQuantity = @ + quantity])

reserve(doc, quantity, reference) ==
    IF quantity <= 0 THEN Thrown(doc, "Reserve quantity must be positive")
    ELSE IF availableQuantity(doc) < quantity
         THEN Thrown(doc, "Insufficient available quantity to reserve")
    ELSE Mem([doc EXCEPT !.reservedQuantity = @ + quantity,
                         !.movements = Append(@, Movement("RESERVED", quantity, reference))])

(* a release that gives back everything that is reserved *)
releaseAll(doc, quantity, reference) ==
    IF quantity <= 0 THEN Thrown(doc, "Release quantity must be positive")
    ELSE IF doc.reservedQuantity < quantity
         THEN Thrown(doc, "Cannot release more than reserved quantity")
    ELSE Mem([doc EXCEPT !.reservedQuantity = 0,
                         !.movements = Append(@, Movement("RELEASED", quantity, reference))])

release(doc, quantity, reference) ==
    IF quantity <= 0 THEN Thrown(doc, "Release quantity must be positive")
    ELSE IF doc.reservedQuantity < quantity
         THEN Thrown(doc, "Cannot release more than reserved quantity")
    ELSE Mem([doc EXCEPT !.reservedQuantity = @ - quantity,
                         !.movements = Append(@, Movement("RELEASED", quantity, reference))])

adjust(doc, newQuantity) ==
    IF newQuantity < 0 THEN Thrown(doc, "Quantity cannot be negative")
    ELSE IF newQuantity < doc.reservedQuantity
         THEN Thrown(doc, "New quantity cannot be less than reserved quantity")
    ELSE Mem([doc EXCEPT !.quantity = newQuantity,
                         !.movements = Append(@, Movement("ADJUSTMENT",
                                                  newQuantity - doc.quantity, ""))])

addStock(doc, quantity, reference) ==
    IF quantity <= 0 THEN Thrown(doc, "Add quantity must be positive")
    ELSE Mem([doc EXCEPT !.quantity = @ + quantity,
                         !.movements = Append(@, Movement("IN", quantity, reference))])

(* a removeStock that does not note the order on its movement *)
removeStockNoReference(doc, quantity, reference) ==
    IF quantity <= 0 THEN Thrown(doc, "Remove quantity must be positive")
    ELSE IF doc.quantity < quantity
         THEN Thrown(doc, "Insufficient quantity to remove")
    ELSE Mem([doc EXCEPT !.quantity = @ - quantity,
                         !.movements = Append(@, Movement("OUT", quantity, ""))])

removeStock(doc, quantity, reference) ==
    IF quantity <= 0 THEN Thrown(doc, "Remove quantity must be positive")
    ELSE IF doc.quantity < quantity
         THEN Thrown(doc, "Insufficient quantity to remove")
    ELSE Mem([doc EXCEPT !.quantity = @ - quantity,
                         !.movements = Append(@, Movement("OUT", quantity, reference))])

(* save() of a document that was read as `base` and is now `doc`: the      *)
(* update sets the paths that were modified and pushes the new movements;  *)
(* every other path of the stored document keeps its stored value.         *)
save(stored, base, doc) ==
    [quantity |-> IF doc.quantity # base.quantity
                  THEN doc.quantity ELSE stored.quantity,
     reservedQuantity |-> IF doc.reservedQuantity # base.reservedQuantity
                          THEN doc.reservedQuantity ELSE stored.reservedQuantity,
     movements |-> stored.movements
                     \o SubSeq(doc.movements, Len(base.movements) + 1,
                               Len(doc.movements))]

(* a method followed by its save(), on a document no one else writes       *)
(* between the read and the write (inside a transaction)                   *)
Saved(r) ==
    IF r.err # "" THEN r
    ELSE IF validateSave(r.doc) # "" THEN Thrown(r.doc, validateSave(r.doc))
    ELSE r

(* InventoryService.reserveStock on a record that exists, with no other    *)
(* writer: the service's own stock check, then inventory.reserve           *)
reserveStock(doc, quantity, reference) ==
    IF availableQuantity(doc) < quantity
    THEN Thrown(doc, "ValidationError")
    ELSE Saved(reserve(doc, quantity, reference))

----------------------------------------------------------------------------
(* InventoryService and the order event handlers.  One consumer instance   *)
(* handles one message at a time.  An instance record:                     *)
(*   pc       "idle"; "find" (reserveStock of item i is about to read);    *)
(*            "save" (a document was changed in memory, save() is pending) *)
(*   op       the event type being handled                                 *)
(*   order, i the order id and the item the OrderCreated loop is at        *)
(*   product  the product of the document held in memory                   *)
(*   base     that document as it was read                                 *)
(*   doc      that document as the instance method left it                 *)
(*   start    every product's reservedQuantity when the handler was        *)
(*            entered (kept for the properties; the code holds no such     *)
(*            value)                                                       *)
(* A handler that returns is acknowledged (ack); one that throws is        *)
(* rejected without requeue (nack).  The broker delivers at least once:    *)
(* any message can be delivered again.                                     *)
(* releaseOrderReservation and commitOrderReservation read and write under *)
(* one session inside withTransaction: they take effect at the commit, or  *)
(* not at all.  The StockReserved / InventoryCreated publications are not  *)
(* tracked.                                                                *)

(* the items of the orders the inventory side hears about: what the        *)
(* OrderCreated event carries and what GET /api/orders/:id returns         *)
OrderCatalog ==
    [o \in Orders |->
        IF o = "o1" THEN <<Item("p1", 1, 3), Item("p1", 2, 3)>>
        ELSE <<Item("p1", 1, 3), Item("p2", 1, 2)>>]

InitialStockInputs == {0, 4}     \* ProductCreated: stock
NewStockInputs == {0}            \* ProductStockUpdated: newStock

IdleInst ==
    [pc |-> "idle", op |-> "", order |-> "", i |-> 0, product |-> "",
     base |-> NewInventory(0), doc |-> NewInventory(0),
     start |-> [p \in Products |-> 0]]

WithDoc(inv, p, doc) ==
    [x \in DOMAIN inv \cup {p} |-> IF x = p THEN doc ELSE inv[x]]

RECURSIVE SumLen(_, _)
SumLen(inv, ps) ==
    IF ps = {} THEN 0
    ELSE LET p == CHOOSE x \in ps : TRUE
         IN Len(inv[p].movements) + SumLen(inv, ps \ {p})

TotalMovements(inv) == SumLen(inv, DOMAIN inv)

CanDeliver(c) ==
    /\ inst[c].pc = "idle"
    /\ TotalMovements(inventory) < MaxMovements

(* the reservedQuantity of a product, 0 while it has no record *)
ReservedOf(inv, p) == IF p \in DOMAIN inv THEN inv[p].reservedQuantity ELSE 0

(* ProductCreatedHandler: initializeInventory(productId, stock || 0) *)
HandleProductCreated(c, p, stock) ==
    /\ CanDeliver(c)
    /\ IF p \in DOMAIN inventory
       THEN UNCHANGED inventory        \* ConflictError: nack
       ELSE inventory' = WithDoc(inventory, p, NewInventory(stock))
    /\ UNCHANGED <<inst, orderVars, aggVars, otherVars>>

(* OrderCreatedHandler.handle is entered with the event of order o *)
DeliverOrderCreated(c, o) ==
    /\ CanDeliver(c)
    /\ inst' = [inst EXCEPT ![c] =
          [IdleInst EXCEPT !.pc = "find", !.op = "OrderCreated",
                           !.order = o, !.i = 1,
                           !.start = [p \in Products |->
                                         ReservedOf(inventory, p)]]]
    /\ UNCHANGED <<inventory, orderVars, aggVars, otherVars>>

(* reserveStock for item i, up to the save() inside inventory.reserve *)
ReserveFind(c) ==
    /\ inst[c].pc = "find"
    /\ LET item == OrderCatalog[inst[c].order][inst[c].i]
           p == item.productId
       IN IF p \notin DOMAIN inventory
          THEN \* auto-initialize with stock 0, then "Insufficient stock": nack
               /\ inventory' = WithDoc(inventory, p, NewInventory(0))
               /\ inst' = [inst EXCEPT ![c] = IdleInst]
          ELSE LET r == reserve(inventory[p], item.quantity, inst[c].order)
               IN /\ UNCHANGED inventory
                  /\ inst' = [inst EXCEPT ![c] =
                        IF availableQuantity(inventory[p]) < item.quantity
                              \/ r.err # ""
                        THEN IdleInst                        \* nack
                        ELSE [@ EXCEPT !.pc = "save", !.product = p,
                                       !.base = inventory[p], !.doc = r.doc]]
    /\ UNCHANGED <<orderVars, aggVars, otherVars>>

(* the save() inside inventory.reserve, then the next item or the ack *)
ReserveSave(c) ==
    /\ inst[c].pc = "save"
    /\ inst[c].op = "OrderCreated"
    /\ IF validateSave(inst[c].doc) # ""
       THEN /\ UNCHANGED inventory
            /\ inst' = [inst EXCEPT ![c] = IdleInst]         \* nack
       ELSE /\ inventory' = WithDoc(inventory, inst[c].product,
                                save(inventory[inst[c].product],
                                     inst[c].base, inst[c].doc))
            /\ inst' = [inst EXCEPT ![c] =
                  IF inst[c].i < Len(OrderCatalog[inst[c].order])
                  THEN [IdleInst EXCEPT !.pc = "find", !.op = "OrderCreated",
                                        !.order = inst[c].order,
                                        !.i = inst[c].i + 1,
                                        !.start = inst[c].start]
                  ELSE IdleInst]                             \* ack
    /\ UNCHANGED <<orderVars, aggVars, otherVars>>

(* ProductStockUpdatedHandler: syncProductStock up to the save() inside    *)
(* inventory.adjust                                                        *)
SyncFind(c, p, newStock) ==
    /\ CanDeliver(c)
    /\ IF p \notin DOMAIN inventory
       THEN /\ inventory' = WithDoc(inventory, p, NewInventory(newStock))
            /\ UNCHANGED inst
       ELSE LET r == adjust(inventory[p], newStock)
            IN /\ UNCHANGED inventory
               /\ inst' = [inst EXCEPT ![c] =
                     IF r.err # "" THEN IdleInst                \* nack
                     ELSE [IdleInst EXCEPT !.pc = "save",
                                           !.op = "ProductStockUpdated",
                                           !.product = p,
                                           !.base = inventory[p],
                                           !.doc = r.doc]]
    /\ UNCHANGED <<orderVars, aggVars, otherVars>>

(* the save() inside inventory.adjust *)
SyncSave(c) ==
    /\ inst[c].pc = "save"
    /\ inst[c].op = "ProductStockUpdated"
    /\ IF validateSave(inst[c].doc) # ""
       THEN UNCHANGED inventory
       ELSE inventory' = WithDoc(inventory, inst[c].product,
                                 save(inventory[inst[c].product],
                                      inst[c].base, inst[c].doc))
    /\ inst' = [inst EXCEPT ![c] = IdleInst]
    /\ UNCHANGED <<orderVars, aggVars, otherVars>>

(* the first RESERVED movement of the order in a movement log, 0 if none:  *)
(* movements.find(m => m.type === 'RESERVED' && m.reference === orderId)   *)
FindReserved(movements, orderId) ==
    LET hits == {k \in 1..Len(movements) :
                    movements[k].type = "RESERVED"
                        /\ movements[k].reference = orderId}
    IN IF hits = {} THEN 0
       ELSE CHOOSE k \in hits : \A j \in hits : k <= j

(* releaseOrderReservation: the loop over order.items inside the           *)
(* transaction; the inventories after it, or the error that aborts it      *)
RECURSIVE releaseOrderReservation(_, _, _)
releaseOrderReservation(inv, items, orderId) ==
    IF items = <<>> THEN [inv |-> inv, err |-> ""]
    ELSE LET p == Head(items).productId
         IN IF p \notin DOMAIN inv
            THEN releaseOrderReservation(inv, Tail(items), orderId)
            ELSE LET k == FindReserved(inv[p].movements, orderId)
                 IN IF k = 0
                    THEN releaseOrderReservation(inv, Tail(items), orderId)
                    ELSE LET r == Saved(release(inv[p],
                                                inv[p].movements[k].quantity,
                                                orderId))
                         IN IF r.err # "" THEN [inv |-> inv, err |-> r.err]
                            ELSE releaseOrderReservation(WithDoc(inv, p, r.doc),
                                                         Tail(items), orderId)

(* commitOrderReservation: the loop over order.items inside the transaction *)
RECURSIVE commitOrderReservation(_, _, _)
commitOrderReservation(inv, items, orderId) ==
    IF items = <<>> THEN [inv |-> inv, err |-> ""]
    ELSE LET p == Head(items).productId
             q == Head(items).quantity
         IN IF p \notin DOMAIN inv
            THEN commitOrderReservation(inv, Tail(items), orderId)
            ELSE LET r1 == Saved(release(inv[p], q, orderId))
                     r2 == Saved(removeStock(r1.doc, q, orderId))
                 IN IF r1.err # "" THEN [inv |-> inv, err |-> r1.err]
                    ELSE IF r2.err # "" THEN [inv |-> inv, err |-> r2.err]
                    ELSE commitOrderReservation(WithDoc(inv, p, r2.doc),
                                                Tail(items), orderId)

(* OrderCancelledHandler: the order is fetched from the order service,     *)
(* then releaseOrderReservation runs in its transaction                    *)
HandleOrderCancelled(c, o) ==
    /\ CanDeliver(c)
    /\ o \in DOMAIN projection
    /\ LET r == releaseOrderReservation(inventory, projection[o].items, o)
       IN IF r.err # ""
          THEN UNCHANGED inventory                          \* abort, nack
          ELSE inventory' = r.inv                           \* commit, ack
    /\ UNCHANGED <<inst, orderVars, aggVars, otherVars>>

(* OrderShippedHandler: likewise with commitOrderReservation *)
HandleOrderShipped(c, o) ==
    /\ CanDeliver(c)
    /\ o \in DOMAIN projection
    /\ LET r == commitOrderReservation(inventory, projection[o].items, o)
       IN IF r.err # ""
          THEN UNCHANGED inventory                          \* abort, nack
          ELSE inventory' = r.inv                           \* commit, ack
    /\ UNCHANGED <<inst, orderVars, aggVars, otherVars>>

InvIdle ==
    /\ inventory = << >>
    /\ inst = [c \in Insts |-> IdleInst]

InvNext ==
    \/ \E c \in Insts, p \in Products, n \in InitialStockInputs : HandleProductCreated(c, p, n)
    \/ \E c \in Insts, o \in Orders : DeliverOrderCreated(c, o)
    \/ \E c \in Insts : ReserveFind(c)
    \/ \E c \in Insts : ReserveSave(c)
    \/ \E c \in Insts, p \in Products, n \in NewStockInputs : SyncFind(c, p, n)
    \/ \E c \in Insts : SyncSave(c)
    \/ \E c \in Insts, o \in Orders : HandleOrderCancelled(c, o)
    \/ \E c \in Insts, o \in Orders : HandleOrderShipped(c, o)

----------------------------------------------------------------------------
(* Event bus (shared/utils/src/eventBus.ts) and the broker topology of     *)
(* defaultEventBusConfig.  A routing key is the sequence of its words.     *)

Queues == {"user.events", "product.events", "order.events", "inventory.events"}

(* defaultEventBusConfig.queues[..].bindings *)
bindings ==
    [q \in Queues |->
        CASE q = "user.events" ->
               {[exchange |-> "micropulse.events", routingKey |-> <<"user", "*">>]}
          [] q = "product.events" ->
               {[exchange |-> "micropulse.events", routingKey |-> <<"product", "*">>]}
          [] q = "order.events" ->
               {[exchange |-> "micropulse.events", routingKey |-> <<"order", "*">>]}
          [] q = "inventory.events" ->
               {[exchange |-> "micropulse.events", routingKey |-> <<"inventory", "*">>]}]

(* topic exchange: '*' stands for exactly one word *)
matches(pattern, routingKey) ==
    /\ Len(pattern) = Len(routingKey)
    /\ \A i \in 1..Len(pattern) : pattern[i] = "*" \/ pattern[i] = routingKey[i]

(* the queues a published message is copied to *)
route(message) ==
    {q \in Queues : \E b \in bindings[q] :
        /\ b.exchange = message.exchange
        /\ matches(b.routingKey, message.routingKey)}

(* InventoryServiceApp.initializeEventHandlers: subscribe(queue, type, h) *)
subscriptions ==
    { [queue |-> "inventory.events", eventType |-> "OrderCreated",
       handler |-> "OrderCreatedHandler"],
      [queue |-> "inventory.events", eventType |-> "OrderCancelled",
       handler |-> "OrderCancelledHandler"],
      [queue |-> "inventory.events", eventType |-> "OrderShipped",
       handler |-> "OrderShippedHandler"],
      [queue |-> "inventory.events", eventType |-> "ProductCreated",
       handler |-> "ProductCreatedHandler"],
      [queue |-> "inventory.events", eventType |-> "ProductStockUpdated",
       handler |-> "ProductStockUpdatedHandler"] }

(* this.handlers.get(event.type) || [] *)
handlersFor(eventType) ==
    {sub.handler : sub \in {x \in subscriptions : x.eventType = eventType}}

OrderEventTypes ==
    {"OrderCreated", "OrderStatusUpdated", "OrderPaymentProcessed",
     "OrderShipped", "OrderCancelled"}

(* what the product service and the inventory service publish *)
ProductPublishes ==
    { [key |-> <<"product", "created">>, type |-> "ProductCreated"],
      [key |-> <<"product", "stock_updated">>, type |-> "ProductStockUpdated"] }
InventoryPublishes ==
    { [key |-> <<"inventory", "reserved">>, type |-> "StockReserved"],
      [key |-> <<"inventory", "released">>, type |-> "StockReleased"] }

BusEvent(type, aggregateId) == [type |-> type, aggregateId |-> aggregateId]

RECURSIVE SumQueued(_, _)
SumQueued(qs, names) ==
    IF names = {} THEN 0
    ELSE LET q == CHOOSE x \in names : TRUE
         IN Len(qs[q]) + SumQueued(qs, names \ {q})

CanPublish == SumQueued(queues, Queues) + Len(consumed) < MaxPublished

(* channel.publish: the exchange copies the message to every queue bound   *)
(* with a matching key                                                     *)
Enqueue(message) ==
    queues' = [q \in Queues |->
                  IF q \in route(message) THEN Append(queues[q], message)
                  ELSE queues[q]]

(* the publish statement of the OrderService commands *)
PublishOrderEvent(type, o) ==
    /\ CanPublish
    /\ Enqueue(publish("micropulse.events", <<"order", toLowerCase(type)>>,
                       BusEvent(type, o)))
    /\ UNCHANGED <<consumed, orderVars, invVars, aggVars, cbVars, trip>>

(* ProductService: publish('micropulse.events', 'product.created', ..) etc. *)
PublishProductEvent(pub, p) ==
    /\ CanPublish
    /\ Enqueue(publish("micropulse.events", pub.key, BusEvent(pub.type, p)))
    /\ UNCHANGED <<consumed, orderVars, invVars, aggVars, cbVars, trip>>

(* InventoryService: publish('micropulse.events', 'inventory.reserved', ..) *)
PublishInventoryEvent(pub, p) ==
    /\ CanPublish
    /\ Enqueue(publish("micropulse.events", pub.key, BusEvent(pub.type, p)))
    /\ UNCHANGED <<consumed, orderVars, invVars, aggVars, cbVars, trip>>

(* a message body that is not JSON *)
Unparseable == [raw |-> "not json"]

(* JSON.parse(message.content.toString()) returns, or throws *)
parses(content) == "type" \in DOMAIN content

(* what reaches a subscribed queue from a publisher other than the three   *)
(* services (the default exchange routes by queue name)                    *)
ForeignContents == {Unparseable, BusEvent("OrderCreated", "o1")}

SendToQueue(q, content) ==
    /\ CanPublish
    /\ \E sub \in subscriptions : sub.queue = q
    /\ queues' = [queues EXCEPT ![q] = Append(@, publish("", <<q>>, content))]
    /\ UNCHANGED <<consumed, orderVars, invVars, aggVars, cbVars, trip>>

(* channel.ack(message): the broker drops the message *)
ack(queue) == Tail(queue)

(* a broker that keeps every rejected message at the head of its queue *)
nackRequeue(queue, requeue) == queue

(* channel.nack(message, allUpTo, requeue): the broker drops the message   *)
(* or puts it back where it was                                            *)
nack(queue, requeue) == IF requeue THEN queue ELSE Tail(queue)

(* the consumer callback of subscribe: the body is parsed, every handler   *)
(* registered for the event's type is invoked; ack when all returned, nack *)
(* without requeue when one threw or the body did not parse                *)
Consume(q, failing) ==
    /\ \E sub \in subscriptions : sub.queue = q
    /\ queues[q] # <<>>
    /\ LET message == Head(queues[q])
           parsed == parses(message.event)
           invoked == IF parsed THEN handlersFor(message.event.type) ELSE {}
           decision == IF parsed /\ failing = {} THEN "ack" ELSE "nack"
       IN /\ failing \subseteq invoked
          /\ consumed' = Append(consumed,
                [queue |-> q, event |-> message.event, invoked |-> invoked,
                 failed |-> failing, decision |-> decision])
          /\ queues' = [queues EXCEPT ![q] =
                           IF decision = "ack" THEN ack(@) ELSE nack(@, FALSE)]
    /\ UNCHANGED <<orderVars, invVars, aggVars, cbVars, trip>>

HandlerNames == {sub.handler : sub \in subscriptions}

BrokerIdle ==
    /\ queues = [q \in Queues |-> <<>>]
    /\ consumed = <<>>

BrokerNext ==
    \/ \E t \in OrderEventTypes, o \in Orders : PublishOrderEvent(t, o)
    \/ \E pub \in ProductPublishes, p \in Products : PublishProductEvent(pub, p)
    \/ \E pub \in InventoryPublishes, p \in Products : PublishInventoryEvent(pub, p)
    \/ \E q \in Queues, content \in ForeignContents : SendToQueue(q, content)
    \/ \E q \in Queues, failing \in SUBSET HandlerNames : Consume(q, failing)

----------------------------------------------------------------------------
(* CircuitBreaker, RetryHandler and ResilientExecutor                      *)
(* (shared/utils/src/circuitBreaker), configured with                      *)
(* defaultCircuitBreakerOptions and defaultRetryOptions.                   *)

failureThreshold == 5
resetTimeout == 30000
maxAttempts == 3
expectedErrors == {"ValidationError", "AuthenticationError", "AuthorizationError"}
nonRetryableErrors == {"ValidationError", "AuthenticationError", "AuthorizationError"}

(* the clock advances by half a reset timeout *)
TickStep == resetTimeout \div 2

NoTime == 0 - 1        \* nextAttempt is undefined

(* An error: its name, its HTTP status code and the expected-error names   *)
(* its message contains.  The default messages of the error classes        *)
(* contain none.                                                           *)
AppError(name, statusCode) ==
    [name |-> name, statusCode |-> statusCode, mentions |-> {}]

(* what the wrapped function throws: a network failure (a plain Error),    *)
(* ValidationError (400), NotFoundError (404), ConflictError (409),        *)
(* ServiceUnavailableError (503)                                           *)
ThrownErrors ==
    { AppError("Error", 0),
      AppError("ValidationError", 400),
      AppError("NotFoundError", 404),
      AppError("ConflictError", 409),
      AppError("ServiceUnavailableError", 503) }

isExpectedError(error) ==
    \E expectedError \in expectedErrors :
        expectedError \in error.mentions \/ error.name = expectedError

(* the error CircuitBreaker.execute throws while the breaker is OPEN and    *)
(* the deadline has not passed: a plain Error, with no status code         *)
CircuitOpenError == AppError("Error", 0)

(* the status code the global error handler answers with.  The branches    *)
(* are tried in the order of the code: the name first, then the code       *)
(* 11000, then the error's own status code, else the default 500.  A       *)
(* ValidationError that carries no errors map makes the handler itself     *)
(* throw, and the framework's default handler answers 500.                 *)
errorHandler(error) ==
    IF error.name = "ValidationError"
    THEN (IF "errors" \in DOMAIN error THEN 400 ELSE 500)
    ELSE IF error.name = "CastError" THEN 400
    ELSE IF "code" \in DOMAIN error /\ error.code = 11000 THEN 409
    ELSE IF error.name \in {"JsonWebTokenError", "TokenExpiredError",
                            "UnauthorizedError"} THEN 401
    ELSE IF error.name = "ForbiddenError" THEN 403
    ELSE IF error.name = "NotFoundError" THEN 404
    ELSE IF error.statusCode # 0 THEN error.statusCode
    ELSE 500

(* a breaker that lets a call through as soon as a deadline exists *)
AlwaysAttemptReset(cb, time) == cb.nextAttempt # NoTime

shouldAttemptReset(cb, time) ==
    IF cb.nextAttempt # NoTime THEN time >= cb.nextAttempt ELSE FALSE

(* a success that closes the breaker but keeps the failure count *)
onSuccessKeepsCount(cb) ==
    [cb EXCEPT !.state = IF cb.state = "HALF_OPEN" THEN "CLOSED" ELSE cb.state]

onSuccess(cb) ==
    [cb EXCEPT !.failureCount = 0,
               !.state = IF cb.state = "HALF_OPEN" THEN "CLOSED" ELSE cb.state]

onFailure(cb, error, time) ==
    IF isExpectedError(error) THEN cb
    ELSE IF cb.failureCount + 1 >= failureThreshold
         THEN [cb EXCEPT !.failureCount = @ + 1,
                         !.state = "OPEN",
                         !.nextAttempt = time + resetTimeout]
         ELSE [cb EXCEPT !.failureCount = @ + 1]

retryCondition(error) == error.name \notin nonRetryableErrors

IdleCall == [pc |-> "idle", attempt |-> 0, trial |-> FALSE]

NoLastCall == [caller |-> "", outcome |-> "", invocations |-> 0, trial |-> FALSE]

Tick ==
    /\ now < MaxTicks * TickStep
    /\ now' = now + TickStep
    /\ UNCHANGED <<breaker, exec, lastCall, streak>>
    /\ UNCHANGED <<orderVars, invVars, aggVars, brokerVars, trip>>

(* ResilientExecutor.execute up to the first await: CircuitBreaker.execute *)
(* either throws 'Circuit breaker .. is OPEN' or calls                     *)
(* RetryHandler.execute, which invokes the wrapped function (attempt 1).   *)
(* The call that moves the breaker to HALF_OPEN is the trial call.         *)
Begin(c) ==
    /\ exec[c].pc = "idle"
    /\ IF breaker.state = "OPEN" /\ ~shouldAttemptReset(breaker, now)
       THEN /\ lastCall' = [caller |-> c, outcome |-> "CircuitOpen",
                            invocations |-> 0, trial |-> FALSE]
            /\ UNCHANGED <<breaker, exec>>
       ELSE /\ breaker' = IF breaker.state = "OPEN"
                          THEN [breaker EXCEPT !.state = "HALF_OPEN"]
                          ELSE breaker
            /\ exec' = [exec EXCEPT ![c] =
                          [pc |-> "running", attempt |-> 1,
                           trial |-> breaker.state = "OPEN"]]
            /\ UNCHANGED lastCall
    /\ UNCHANGED <<now, streak>>
    /\ UNCHANGED <<orderVars, invVars, aggVars, brokerVars, trip>>

(* the wrapped function resolves: RetryHandler returns, onSuccess runs *)
FnReturns(c) ==
    /\ exec[c].pc = "running"
    /\ breaker' = onSuccess(breaker)
    /\ lastCall' = [caller |-> c, outcome |-> "ok",
                    invocations |-> exec[c].attempt, trial |-> exec[c].trial]
    /\ exec' = [exec EXCEPT ![c] = IdleCall]
    /\ streak' = 0
    /\ UNCHANGED now
    /\ UNCHANGED <<orderVars, invVars, aggVars, brokerVars, trip>>

(* a retry loop that also sleeps after the last attempt *)
FnThrowsSleepsOn(c, error) ==
    /\ exec[c].pc = "running"
    /\ IF ~retryCondition(error)
       THEN /\ breaker' = onFailure(breaker, error, now)
            /\ lastCall' = [caller |-> c, outcome |-> error.name,
                            invocations |-> exec[c].attempt,
                            trial |-> exec[c].trial]
            /\ exec' = [exec EXCEPT ![c] = IdleCall]
            /\ streak' = IF isExpectedError(error) THEN 0 ELSE streak + 1
       ELSE /\ exec' = [exec EXCEPT ![c].pc = "sleeping"]
            /\ UNCHANGED <<breaker, lastCall, streak>>
    /\ UNCHANGED now
    /\ UNCHANGED <<orderVars, invVars, aggVars, brokerVars, trip>>

(* the wrapped function rejects: RetryHandler either rethrows (the error   *)
(* is not retryable, or this was the last attempt), and onFailure runs,    *)
(* or sleeps before the next attempt                                       *)
FnThrows(c, error) ==
    /\ exec[c].pc = "running"
    /\ IF ~retryCondition(error) \/ exec[c].attempt = maxAttempts
       THEN /\ breaker' = onFailure(breaker, error, now)
            /\ lastCall' = [caller |-> c, outcome |-> error.name,
                            invocations |-> exec[c].attempt,
                            trial |-> exec[c].trial]
            /\ exec' = [exec EXCEPT ![c] = IdleCall]
            /\ streak' = IF isExpectedError(error) THEN 0 ELSE streak + 1
       ELSE /\ exec' = [exec EXCEPT ![c].pc = "sleeping"]
            /\ UNCHANGED <<breaker, lastCall, streak>>
    /\ UNCHANGED now
    /\ UNCHANGED <<orderVars, invVars, aggVars, brokerVars, trip>>

(* the sleep is over: the next attempt invokes the wrapped function *)
Retry(c) ==
    /\ exec[c].pc = "sleeping"
    /\ exec' = [exec EXCEPT ![c].pc = "running", ![c].attempt = @ + 1]
    /\ UNCHANGED <<breaker, now, lastCall, streak>>
    /\ UNCHANGED <<orderVars, invVars, aggVars, brokerVars, trip>>

CbIdle ==
    /\ breaker = [state |-> "CLOSED", failureCount |-> 0, nextAttempt |-> NoTime]
    /\ now = 0
    /\ exec = [c \in Callers |-> IdleCall]
    /\ lastCall = NoLastCall
    /\ streak = 0

CbNext ==
    \/ Tick
    \/ \E c \in Callers : Begin(c)
    \/ \E c \in Callers : FnReturns(c)
    \/ \E c \in Callers, e \in ThrownErrors : FnThrows(c, e)
    \/ \E c \in Callers : Retry(c)

----------------------------------------------------------------------------
(* One inventory document under reserve(q, .., r) followed by              *)
(* release(q, .., r), each with its save()                                 *)

TripDocs ==
    { [quantity |-> n, reservedQuantity |-> m, movements |-> <<>>] :
        n \in 0..MaxQuantity, m \in 0..MaxQuantity }

NewTrip(doc, q, r) ==
    [phase |-> "start", before |-> doc, doc |-> doc, quantity |-> q,
     reference |-> r, err |-> ""]

TripReserve ==
    /\ trip.phase = "start"
    /\ LET r == Saved(reserve(trip.doc, trip.quantity, trip.reference))
       IN trip' = [trip EXCEPT !.phase = IF r.err = "" THEN "reserved" ELSE "failed",
                               !.doc = IF r.err = "" THEN r.doc ELSE trip.doc,
                               !.err = r.err]
    /\ UNCHANGED <<orderVars, invVars, aggVars, brokerVars, cbVars>>

TripRelease ==
    /\ trip.phase = "reserved"
    /\ LET r == Saved(release(trip.doc, trip.quantity, trip.reference))
       IN trip' = [trip EXCEPT !.phase = IF r.err = "" THEN "released" ELSE "failed",
                               !.doc = IF r.err = "" THEN r.doc ELSE trip.doc,
                               !.err = r.err]
    /\ UNCHANGED <<orderVars, invVars, aggVars, brokerVars, cbVars>>

(* the same reservation made through InventoryService.reserveStock *)
TripReserveStock ==
    /\ trip.phase = "start"
    /\ LET r == reserveStock(trip.doc, trip.quantity, trip.reference)
       IN trip' = [trip EXCEPT !.phase = IF r.err = "" THEN "reserved" ELSE "failed",
                               !.doc = IF r.err = "" THEN r.doc ELSE trip.doc,
                               !.err = r.err]
    /\ UNCHANGED <<orderVars, invVars, aggVars, brokerVars, cbVars>>

TripIdle == trip = NewTrip(NewInventory(0), 1, "")

TripStart ==
    \E doc \in TripDocs, q \in 1..MaxQuantity, r \in Orders :
        trip = NewTrip(doc, q, r)

TripNext == TripReserve \/ TripReserveStock \/ TripRelease

OtherIdle == BrokerIdle /\ CbIdle /\ TripIdle

----------------------------------------------------------------------------
(* The aggregate on its own: one OrderAggregate object on which commands   *)
(* are called one after another, a command that threw included.  After     *)
(* each call the caller reads the events the call buffered (call.after)    *)
(* and calls markEventsAsCommitted.                                        *)

markEventsAsCommitted(agg) == [agg EXCEPT !.uncommittedEvents = <<>>]

NoCall ==
    [cmd |-> "", arg |-> "", before |-> NewAggregate("o1"),
     after |-> NewAggregate("o1"), err |-> ""]

Called(cmd, arg, r) ==
    /\ aggObj.version < MaxAggVersion
    /\ call' = [cmd |-> cmd, arg |-> arg, before |-> aggObj,
                after |-> r.agg, err |-> r.err]
    /\ aggObj' = markEventsAsCommitted(r.agg)
    /\ UNCHANGED <<orderVars, invVars, otherVars>>

AggCreateOrder(items, pm) ==
    Called("createOrder", "", createOrder(aggObj, items, pm, "t"))

AggUpdateStatus(newStatus) ==
    Called("updateStatus", newStatus, updateStatus(aggObj, newStatus, "t"))

AggProcessPayment(paymentStatus) ==
    Called("processPayment", paymentStatus,
           processPayment(aggObj, paymentStatus, "t"))

AggShipOrder == Called("shipOrder", "", shipOrder(aggObj, "t"))

AggCancelOrder ==
    Called("cancelOrder", "",
           cancelOrder(aggObj,
                       IF aggObj.status = CONFIRMED
                       THEN aggObj.totalAmount ELSE NoRefund, "t"))

AggIdle ==
    /\ aggObj = NewAggregate("o1")
    /\ call = NoCall

AggNext ==
    \/ \E items \in AggItemLists, pm \in PaymentMethodInputs : AggCreateOrder(items, pm)
    \/ \E s \in OrderStatus : AggUpdateStatus(s)
    \/ \E ps \in AggPaymentStatusInputs : AggProcessPayment(ps)
    \/ AggShipOrder
    \/ AggCancelOrder

----------------------------------------------------------------------------
(* Specifications *)

(* the orders collection as the order service holds it once the orders of  *)
(* the catalog have been created                                           *)
CatalogProjection ==
    [o \in Orders |->
        projectionData(NewOrderDoc,
            createOrder(NewAggregate(o), OrderCatalog[o], "credit_card", "r1").agg)]

(* the order service under concurrent requests *)
OrderInit == OrderIdle /\ InvIdle /\ AggIdle /\ OtherIdle
SpecOrder == OrderInit /\ [][OrderNext]_vars

(* the same requests, with rebuildProjection run at any moment *)
SpecRepo == OrderInit /\ [][RepoNext]_vars

(* one aggregate object under a sequence of command calls *)
SpecAgg == OrderInit /\ [][AggNext]_vars

(* the inventory consumers, for orders that exist in the order service *)
InvInit ==
    /\ eventStore = {}
    /\ projection = CatalogProjection
    /\ proc = [p \in Procs |-> IdleRequest]
    /\ bus = <<>>
    /\ InvIdle
    /\ AggIdle
    /\ OtherIdle
SpecInv == InvInit /\ [][InvNext]_vars

(* the broker between the publishing services and the inventory consumer *)
SpecBus == OrderInit /\ [][BrokerNext]_vars

(* reserve then release, from every document and quantity within the bound *)
TripInit == OrderIdle /\ InvIdle /\ AggIdle /\ BrokerIdle /\ CbIdle /\ TripStart

SpecTrip == TripInit /\ [][TripNext]_vars

(* concurrent callers of one ResilientExecutor *)
SpecCb == OrderInit /\ [][CbNext]_vars

(* the callers within one reset timeout (the retry loop does not read the  *)
(* clock), when the wrapped function always settles and every sleep ends   *)
RetryNext ==
    \/ \E c \in Callers : Begin(c)
    \/ \E c \in Callers : FnReturns(c)
    \/ \E c \in Callers, e \in ThrownErrors : FnThrows(c, e)
    \/ \E c \in Callers : Retry(c)

CbFairness ==
    \A c \in Callers :
        /\ WF_vars(FnReturns(c) \/ \E e \in ThrownErrors : FnThrows(c, e))
        /\ WF_vars(Retry(c))

SpecRetry == OrderInit /\ [][RetryNext]_vars /\ CbFairness

----------------------------------------------------------------------------
(* Properties of the event store under concurrent requests (SpecOrder)     *)

EventsOf(o) == {d \in eventStore : d.aggregateId = o}

(* C1: for every aggregate the versions of its stored events are exactly   *)
(* 1..N, N the number of events stored for it: no gap and no repeat, in    *)
(* every reachable state, two-event commands and failed saves included.    *)
C1_VersionsContiguous ==
    \A o \in Orders :
        {d.version : d \in EventsOf(o)} = 1..Cardinality(EventsOf(o))

(* an order holds the events of a two-event command while a save on it has *)
(* just failed                                                             *)
C1_Witness ==
    \E p \in Procs :
        /\ proc[p].pc = "failed"
        /\ Cardinality(EventsOf(proc[p].order)) >= 3
        /\ \E d \in EventsOf(proc[p].order) : d.eventType = "OrderCancelled"

(* two requests race when both are inside a command on the same order that *)
(* they loaded at the same version                                         *)
Racing(p, q) ==
    /\ p # q
    /\ proc[p].pc # "idle"
    /\ proc[q].pc # "idle"
    /\ proc[p].order = proc[q].order
    /\ proc[p].loaded.version = proc[q].loaded.version

Committed(p) == proc[p].pc = "saved"

(* C2: of two racing requests at most one save commits; the other is       *)
(* stopped at its first append, on (aggregateId, N+1), with a conflict,    *)
(* none of its events is in the store and the projection is the winner's.  *)
C2_OneWinner ==
    \A p, q \in Procs :
        (Racing(p, q) /\ Committed(p)) =>
            /\ ~Committed(q)
            /\ proc[q].pc \in {"saving", "failed"}
            /\ proc[q].idx = 1
            /\ proc[q].pc = "failed" => proc[q].err = "Conflict"
            /\ \A d \in EventsOf(proc[q].order) :
                  d.version > proc[q].loaded.version => d.eventId # q
            /\ proc[p].order \in DOMAIN projection
            /\ projection[proc[p].order].version = proc[p].agg.version
            /\ projection[proc[p].order].status = proc[p].agg.status

(* one request has committed and the one it raced has failed *)
C2_Witness ==
    \E p, q \in Procs :
        /\ Racing(p, q)
        /\ Committed(p)
        /\ proc[q].pc = "failed"
        /\ proc[q].err = "Conflict"
        /\ Len(proc[q].agg.uncommittedEvents) = 2

(* C3: an append whose (aggregateId, version) is already in the store      *)
(* fails with a conflict and the store after it is the store before it.    *)
C3_ConflictLeavesStore ==
    [][\A p \in Procs :
          (/\ SaveAppend(p)
           /\ DuplicateKey(eventStore, proc[p].order,
                           proc[p].agg.uncommittedEvents[proc[p].idx].version))
          => /\ eventStore' = eventStore
             /\ proc'[p].pc = "failed"
             /\ proc'[p].err = "Conflict"]_vars

(* a request has been refused an append *)
C3_Witness ==
    \E p \in Procs :
        /\ proc[p].pc = "failed"
        /\ proc[p].err = "Conflict"
        /\ DuplicateKey(eventStore, proc[p].order,
                        proc[p].agg.uncommittedEvents[proc[p].idx].version)

(* C6: after a save that succeeded, fromEvents over the stored stream of   *)
(* the order, up to the version the live aggregate is at, has the status,  *)
(* totalAmount, items and version of the live aggregate, and an empty      *)
(* uncommitted-event buffer.                                               *)
C6_ReplayDeterminism ==
    \A p \in Procs :
        Committed(p) =>
            LET live == proc[p].agg
                stream == getEventsForAggregate(eventStore, proc[p].order)
            IN /\ Len(stream) >= live.version
               /\ LET replayed == fromEvents(toDomainEvents(
                                      SubSeq(stream, 1, live.version)))
                  IN /\ replayed.status = live.status
                     /\ replayed.totalAmount = live.totalAmount
                     /\ replayed.items = live.items
                     /\ replayed.version = live.version
                     /\ replayed.uncommittedEvents = <<>>

(* a payment that confirmed the order has been saved *)
C6_Witness ==
    \E p \in Procs :
        /\ Committed(p)
        /\ proc[p].cmd = "processPayment"
        /\ proc[p].agg.status = CONFIRMED
        /\ proc[p].agg.version >= 3
        /\ Len(Stream(proc[p].order)) = proc[p].agg.version

(* the documents a request has inserted since it loaded the aggregate *)
AppendedBy(p) ==
    {d \in EventsOf(proc[p].order) :
        d.eventId = p /\ d.version > proc[p].loaded.version}

(* C11: save is atomic.  A save that failed has left none of its events in *)
(* the event store and its aggregate still holds every uncommitted event;  *)
(* a save that succeeded has stored all of them, has written the           *)
(* projection and has cleared the buffer.                                  *)
C11_SaveAtomic ==
    \A p \in Procs :
        /\ proc[p].pc = "failed" =>
              /\ AppendedBy(p) = {}
              /\ proc[p].agg.uncommittedEvents # <<>>
        /\ proc[p].pc = "saved" =>
              /\ Cardinality(AppendedBy(p))
                    = proc[p].agg.version - proc[p].loaded.version
              /\ proc[p].agg.uncommittedEvents = <<>>

(* the events a command has appended, in version order, as published      *)
(* messages                                                                *)
MessagesOf(p) ==
    LET docs == SubSeq(Stream(proc[p].order), proc[p].loaded.version + 1,
                       proc[p].agg.version)
    IN [i \in 1..Len(docs) |->
          publish("micropulse.events",
                  <<"order", toLowerCase(docs[i].eventType)>>,
                  toDomainEvent(docs[i]))]

(* C12: when a command returns after a successful save, every event it     *)
(* appended has been published to micropulse.events with routing key       *)
(* order.<lowercased type>, in version order.                              *)
C12_PublishedAfterSuccess ==
    [][\A p \in Procs :
          PublishEvents(p) => bus' = bus \o MessagesOf(p)]_vars

(* C14: a message is put on the bus only by a request whose save has       *)
(* committed, and only for events that are in the event store; a request   *)
(* whose save failed returns without publishing.                           *)
C14_PublishAfterCommit ==
    [][/\ bus' # bus =>
             \E p \in Procs :
                 /\ proc[p].pc = "saved"
                 /\ Len(bus') >= Len(bus)
                 /\ SubSeq(bus', 1, Len(bus)) = bus
                 /\ \A i \in (Len(bus) + 1)..Len(bus') :
                       EventDoc(bus'[i].event) \in eventStore
       /\ \A p \in Procs :
             (proc[p].pc = "failed" /\ proc'[p].pc = "idle") => bus' = bus]_vars

(* a request whose save failed is about to return, nothing is on the bus *)
C14_Witness ==
    \E p \in Procs :
        /\ proc[p].pc = "failed"
        /\ proc[p].agg.uncommittedEvents # <<>>
        /\ bus = <<>>
        /\ \E q \in Procs : proc[q].pc = "idle" /\ EventsOf(proc[p].order) # {}

(* the projection that the saves of an order's commands build, one after  *)
(* the other, from its event history: the core fields of the replayed      *)
(* aggregate and the payment and shipping fields set from the events       *)
SavedProjection(events) ==
    projectionData(NewOrderDoc,
                   [fromEvents(events) EXCEPT !.uncommittedEvents = events])

(* C20: rebuildProjection(id), from a missing or a stale projection        *)
(* document, leaves the projection that save builds for the order's event  *)
(* history, payment and shipping fields included.                          *)
C20_RebuildEqualsSave ==
    [][\A o \in Orders :
          RebuildProjection(o) =>
              /\ o \in DOMAIN projection'
              /\ projection'[o] = SavedProjection(toDomainEvents(Stream(o)))]_vars

(* C21: cancelOrder on an order whose status is CONFIRMED puts             *)
(* refundAmount = totalAmount into the OrderCancelled event and leaves the *)
(* aggregate CANCELLED; when its save has succeeded the event is stored    *)
(* and the replayed order and its projection are CANCELLED.                *)
C21_ConfirmedCancelRefunds ==
    [][\A p \in Procs :
          /\ \A o \in Orders :
                (/\ Stream(o) # <<>>
                 /\ getById(eventStore, o).status = CONFIRMED
                 /\ CancelOrder(p, o))
                => LET emitted == proc'[p].agg.uncommittedEvents
                   IN /\ proc'[p].pc = "saving"
                      /\ emitted[1].type = "OrderCancelled"
                      /\ emitted[1].data.refundAmount
                            = getById(eventStore, o).totalAmount
                      /\ proc'[p].agg.status = CANCELLED
          /\ (/\ proc[p].cmd = "cancelOrder"
              /\ proc[p].loaded.status = CONFIRMED
              /\ SaveProjection(p)
              /\ proc'[p].pc = "saved")
             => /\ \E d \in eventStore' :
                      /\ d.aggregateId = proc[p].order
                      /\ d.eventType = "OrderCancelled"
                      /\ d.eventData.refundAmount = proc[p].loaded.totalAmount
                /\ getById(eventStore', proc[p].order).status = CANCELLED
                /\ projection'[proc[p].order].status = CANCELLED]_vars

(* the cancellation of a confirmed order has been saved *)
C21_Witness ==
    \E p \in Procs :
        /\ proc[p].pc = "saved"
        /\ proc[p].cmd = "cancelOrder"
        /\ proc[p].loaded.status = CONFIRMED
        /\ proc[p].loaded.totalAmount > 0
        /\ projection[proc[p].order].status = CANCELLED

(* C29: the event store is append-only.  Whatever the repository and the  *)
(* service do (save, getById, rebuildProjection, a save that fails), every *)
(* stored event is still stored, unchanged, after the step.                *)
C29_AppendOnly ==
    [][\A d \in eventStore : d \in eventStore']_vars

(* a save has failed after one of its events was stored, on an order that  *)
(* other requests went on to extend                                        *)
C29_Witness ==
    \E p \in Procs :
        /\ proc[p].pc = "failed"
        /\ AppendedBy(p) # {}
        /\ Cardinality(EventsOf(proc[p].order)) >= 3
        /\ proc[p].order \in DOMAIN projection

(* the highest version stored for an order *)
HighestVersion(store, o) ==
    LET versions == {d.version : d \in {x \in store : x.aggregateId = o}}
    IN CHOOSE v \in versions : \A w \in versions : w <= v

(* no other request is inside a save on the order *)
NoSaveInFlight(p, o) ==
    \A q \in Procs \ {p} :
        proc[q].order = o => proc[q].pc \notin {"saving", "projecting"}

(* C30: when a save has succeeded and no other save on the order is in     *)
(* flight, the projection's items, totalAmount, status and version are     *)
(* those of the aggregate obtained by replaying the order's complete       *)
(* stored stream, and its version is the highest stored version of the     *)
(* order.                                                                  *)
C30_ProjectionIsReplay ==
    [][\A p \in Procs :
          (/\ NoSaveInFlight(p, proc[p].order)
           /\ SaveProjection(p)
           /\ proc'[p].pc = "saved")
          => LET o == proc[p].order
                 replayed == getById(eventStore', o)
             IN /\ projection'[o].items = replayed.items
                /\ projection'[o].totalAmount = replayed.totalAmount
                /\ projection'[o].status = replayed.status
                /\ projection'[o].version = replayed.version
                /\ projection'[o].version = HighestVersion(eventStore', o)]_vars

----------------------------------------------------------------------------
(* Properties of the broker topology (SpecBus)                             *)

SagaEventTypes == {"OrderCreated", "OrderCancelled", "OrderShipped"}

(* C13: an OrderCreated, OrderCancelled or OrderShipped event published by *)
(* the order service is put on the queue on which the inventory service    *)
(* has subscribed the handler of that event type.                          *)
C13_RoutedToInventory ==
    [][\A t \in SagaEventTypes, o \in Orders :
          PublishOrderEvent(t, o) =>
              \E sub \in subscriptions :
                  /\ sub.eventType = t
                  /\ \E k \in 1..Len(queues'[sub.queue]) :
                        queues'[sub.queue][k].event = BusEvent(t, o)]_vars

(* C23: reserve of q on an existing record, through the model method or    *)
(* through reserveStock: if 0 < q <= availableQuantity it adds exactly q   *)
(* to reservedQuantity (availableQuantity falls by q), leaves quantity and *)
(* appends exactly one RESERVED movement carrying the reference; if        *)
(* q > availableQuantity it fails with an error and reservedQuantity,      *)
(* quantity and movements are unchanged.                                   *)
C23_ReserveEffect ==
    [][(TripReserve \/ TripReserveStock)
          => LET q == trip.quantity
                 doc == trip.doc
             IN /\ (0 < q /\ q <= availableQuantity(doc)) =>
                      /\ trip'.phase = "reserved"
                      /\ trip'.err = ""
                      /\ trip'.doc.reservedQuantity = doc.reservedQuantity + q
                      /\ availableQuantity(trip'.doc) = availableQuantity(doc) - q
                      /\ trip'.doc.quantity = doc.quantity
                      /\ trip'.doc.movements
                            = Append(doc.movements,
                                     Movement("RESERVED", q, trip.reference))
                /\ q > availableQuantity(doc) =>
                      /\ trip'.phase = "failed"
                      /\ trip'.err # ""
                      /\ trip'.doc = doc]_vars

(* part of the stock was reserved already and the rest has been reserved *)
C23_Witness ==
    /\ trip.phase = "reserved"
    /\ trip.before.reservedQuantity > 0
    /\ trip.quantity > 1
    /\ availableQuantity(trip.doc) = 0
    /\ Len(trip.doc.movements) = 1

C19_ReserveReleaseRoundTrip ==
    LET fits == /\ 0 < trip.quantity
                /\ trip.quantity <= availableQuantity(trip.before)
    IN /\ trip.phase = "failed" => ~fits
       /\ trip.phase = "reserved" =>
             /\ fits
             /\ trip.doc.reservedQuantity
                   = trip.before.reservedQuantity + trip.quantity
       /\ trip.phase = "released" =>
             /\ trip.doc.reservedQuantity = trip.before.reservedQuantity
             /\ availableQuantity(trip.doc) = availableQuantity(trip.before)
             /\ trip.doc.quantity = trip.before.quantity

(* a record that already held a reservation has been through the round trip *)
C19_Witness ==
    /\ trip.phase = "released"
    /\ trip.before.reservedQuantity > 0
    /\ trip.quantity > 1
    /\ Len(trip.doc.movements) = 2

----------------------------------------------------------------------------
(* Properties of the resilient executor (SpecCb)                           *)

(* C15: when the fifth consecutive call ends in a non-expected failure the *)
(* breaker is OPEN with its reset deadline set; a call that arrives while  *)
(* the breaker is OPEN and the deadline has not passed is rejected with    *)
(* the circuit-open error, the wrapped function is not invoked and nothing *)
(* is retried.                                                             *)
C15_OpensAndFailsFast ==
    [][/\ (streak' >= failureThreshold /\ streak' # streak) =>
             /\ breaker'.state = "OPEN"
             /\ breaker'.nextAttempt = now + resetTimeout
       /\ \A c \in Callers :
             (Begin(c) /\ breaker.state = "OPEN" /\ now < breaker.nextAttempt) =>
                 /\ lastCall'.caller = c
                 /\ lastCall'.outcome = "CircuitOpen"
                 /\ lastCall'.invocations = 0
                 /\ exec' = exec
                 /\ breaker' = breaker]_vars

(* five calls in a row have failed and the next one has been rejected      *)
(* before the deadline                                                     *)
C15_Witness ==
    /\ streak >= failureThreshold
    /\ breaker.state = "OPEN"
    /\ now > 0
    /\ now < breaker.nextAttempt
    /\ lastCall.outcome = "CircuitOpen"

(* the trial call is in flight *)
TrialInFlight(c) == exec[c].trial /\ exec[c].pc # "idle"

(* C16: while the breaker is HALF_OPEN and the trial call has not settled, *)
(* a call that arrives does not get to invoke the wrapped function.        *)
C16_OneTrial ==
    [][\A c \in Callers :
          (/\ Begin(c)
           /\ breaker.state = "HALF_OPEN"
           /\ \E d \in Callers \ {c} : TrialInFlight(d))
          => exec'[c].pc = "idle"]_vars

(* C17: when the trial call settles in HALF_OPEN, the breaker is CLOSED    *)
(* with failure count 0 if it succeeded and OPEN with a new reset deadline *)
(* if it failed; it is not HALF_OPEN any more.                             *)
C17_TrialDecides ==
    [][\A c \in Callers :
          (/\ breaker.state = "HALF_OPEN"
           /\ TrialInFlight(c)
           /\ exec'[c].pc = "idle")
          => IF lastCall'.outcome = "ok"
             THEN breaker'.state = "CLOSED" /\ breaker'.failureCount = 0
             ELSE /\ breaker'.state = "OPEN"
                  /\ breaker'.nextAttempt = now + resetTimeout]_vars

(* an error of the 4xx class *)
ClientError(error) == error.statusCode \in 400..499

(* C18: after the wrapped function failed with a validation error, a       *)
(* conflict error or any other 4xx error, the retry wrapper rethrows: the  *)
(* call settles and the function is not invoked again.                     *)
C18_NoRetryOnClientError ==
    [][\A c \in Callers, e \in ThrownErrors :
          (FnThrows(c, e) /\ ClientError(e)) => exec'[c].pc = "idle"]_vars

(* the call of c settles in this step with error e *)
SettlesWith(c, e) ==
    FnThrows(c, e) /\ exec'[c].pc = "idle"

(* C32: the failure count is the number of calls that ended in a           *)
(* non-expected failure since the last successful call: a success sets it  *)
(* to 0, a non-expected failure adds one, and a failure matching           *)
(* expectedErrors changes neither the count nor the state, nor does any    *)
(* other step.  The breaker goes from CLOSED to OPEN only at a             *)
(* non-expected failure that brings the count to failureThreshold.         *)
C32_OpensOnlyAtThreshold ==
    [][/\ \A c \in Callers :
             /\ FnReturns(c) =>
                   /\ breaker'.failureCount = 0
                   /\ breaker'.state # "OPEN" \/ breaker.state = "OPEN"
             /\ \A e \in ThrownErrors :
                   SettlesWith(c, e) =>
                       IF isExpectedError(e)
                       THEN breaker' = breaker
                       ELSE breaker'.failureCount = breaker.failureCount + 1
       /\ breaker'.failureCount # breaker.failureCount =>
             \E c \in Callers :
                 \/ FnReturns(c)
                 \/ \E e \in ThrownErrors : SettlesWith(c, e) /\ ~isExpectedError(e)
       /\ (breaker.state = "CLOSED" /\ breaker'.state = "OPEN") =>
             /\ breaker'.failureCount = failureThreshold
             /\ \E c \in Callers, e \in ThrownErrors :
                   SettlesWith(c, e) /\ ~isExpectedError(e)]_vars

(* the breaker has opened at its fifth failure although a call failed with *)
(* an expected error in between                                            *)
C32_Witness ==
    /\ breaker.state = "OPEN"
    /\ breaker.failureCount = failureThreshold
    /\ streak = 1
    /\ lastCall.outcome = "Error"

(* C33: a call rejected because the breaker is OPEN is reported as a       *)
(* ServiceUnavailableError, answered with status 503, and not as a         *)
(* generic internal error.                                                 *)
C33_RejectionIsServiceUnavailable ==
    lastCall.outcome = "CircuitOpen" =>
        /\ CircuitOpenError.name = "ServiceUnavailableError"
        /\ errorHandler(CircuitOpenError) = 503

(* C31: RetryHandler.execute terminates.  The wrapped function is invoked  *)
(* at most maxAttempts times; the first success is returned with no        *)
(* further invocation; after maxAttempts retryable failures the last error *)
(* is rethrown at once, with no sleep after the final attempt; and every   *)
(* call that was let through settles.                                      *)
C31_RetryTerminates ==
    /\ [][\A c \in Callers :
            /\ exec'[c].attempt <= maxAttempts
            /\ FnReturns(c) =>
                  /\ exec'[c] = IdleCall
                  /\ lastCall'.outcome = "ok"
                  /\ lastCall'.invocations = exec[c].attempt
            /\ \A e \in ThrownErrors :
                  (/\ retryCondition(e)
                   /\ exec[c].attempt = maxAttempts
                   /\ FnThrows(c, e))
                  => /\ exec'[c] = IdleCall
                     /\ lastCall'.outcome = e.name
                     /\ lastCall'.invocations = maxAttempts
            /\ Retry(c) => exec[c].attempt < maxAttempts]_vars
    /\ \A c \in Callers : (exec[c].pc # "idle") ~> (exec[c].pc = "idle")

(* a call has given up after its third attempt failed with a retryable     *)
(* error while the other caller sleeps before its third attempt            *)
C31_Witness ==
    /\ lastCall.outcome = "ServiceUnavailableError"
    /\ lastCall.invocations = maxAttempts
    /\ \E c \in Callers : exec[c].pc = "sleeping" /\ exec[c].attempt = 2
    /\ breaker.failureCount >= 1

----------------------------------------------------------------------------
(* Properties of the aggregate (SpecAgg)                                   *)

TransitionGraph ==
    { <<PENDING, CONFIRMED>>, <<PENDING, CANCELLED>>,
      <<CONFIRMED, PROCESSING>>, <<CONFIRMED, CANCELLED>>,
      <<PROCESSING, SHIPPED>>, <<PROCESSING, CANCELLED>>,
      <<SHIPPED, DELIVERED>> }

(* C4: on an existing order in status s, updateStatus(t) with t = s emits  *)
(* nothing and leaves the version; with t # s it emits exactly one         *)
(* OrderStatusUpdated(s, t) iff (s, t) is an edge of the graph and fails   *)
(* with an invalid-transition error otherwise; and whatever the command,   *)
(* a change of status follows an edge.                                     *)
C4_UpdateStatusTransitions ==
    LET s == call.before.status
        t == call.arg
        emitted == call.after.uncommittedEvents
    IN /\ (call.cmd = "updateStatus" /\ call.before.version > 0) =>
            IF t = s
            THEN call.err = "" /\ emitted = <<>>
                    /\ call.after.version = call.before.version
            ELSE IF <<s, t>> \in TransitionGraph
            THEN /\ call.err = ""
                 /\ Len(emitted) = 1
                 /\ emitted[1].type = "OrderStatusUpdated"
                 /\ emitted[1].data.oldStatus = s
                 /\ emitted[1].data.newStatus = t
                 /\ emitted[1].version = call.before.version + 1
                 /\ call.after.status = t
            ELSE /\ call.err = "Invalid status transition"
                 /\ emitted = <<>>
                 /\ call.after.status = s
       /\ call.after.status # call.before.status
             => <<call.before.status, call.after.status>> \in TransitionGraph

(* a shipped order has been refused the move to cancelled *)
C4_Witness ==
    /\ call.cmd = "updateStatus"
    /\ call.before.status = SHIPPED
    /\ call.arg = CANCELLED
    /\ call.err = "Invalid status transition"

(* C5: once the status is DELIVERED or CANCELLED no command changes it;    *)
(* updateStatus(PROCESSING) on a DELIVERED order is rejected.              *)
C5_TerminalStatuses ==
    [][aggObj.status \in {DELIVERED, CANCELLED} =>
          /\ aggObj'.status = aggObj.status
          /\ (/\ aggObj.status = DELIVERED
              /\ call'.cmd = "updateStatus"
              /\ call'.arg = PROCESSING) => call'.err # ""]_vars

(* a delivered order has been asked to go back to processing *)
C5_Witness ==
    /\ call.cmd = "updateStatus"
    /\ call.before.status = DELIVERED
    /\ call.arg = PROCESSING
    /\ call.err # ""
    /\ aggObj.status = DELIVERED

(* the sum of price * quantity over the first n items *)
RECURSIVE LineTotals(_, _)
LineTotals(items, n) ==
    IF n = 0 THEN 0
    ELSE LineTotals(items, n - 1) + items[n].price * items[n].quantity

(* C22: createOrder on a fresh aggregate with a non-empty item list whose  *)
(* total is positive emits exactly one event, OrderCreated at version 1,   *)
(* and leaves the aggregate at version 1, PENDING, with totalAmount the    *)
(* sum over the items of price * quantity.                                 *)
C22_CreateOrderEmitsOne ==
    [][\A items \in AggItemLists, pm \in PaymentMethodInputs :
          (/\ aggObj.version = 0
           /\ Len(items) > 0
           /\ LineTotals(items, Len(items)) > 0
           /\ AggCreateOrder(items, pm))
          => LET emitted == call'.after.uncommittedEvents
             IN /\ call'.err = ""
                /\ Len(emitted) = 1
                /\ emitted[1].type = "OrderCreated"
                /\ emitted[1].version = 1
                /\ emitted[1].data.items = items
                /\ emitted[1].data.totalAmount = LineTotals(items, Len(items))
                /\ call'.after.version = 1
                /\ call'.after.status = PENDING
                /\ call'.after.items = items
                /\ call'.after.totalAmount = LineTotals(items, Len(items))
                /\ aggObj'.version = 1]_vars

(* an order of two units at price 10 has been created *)
C22_Witness ==
    /\ call.cmd = "createOrder"
    /\ call.before.version = 0
    /\ call.err = ""
    /\ call.after.items = <<Item("p1", 2, 10)>>
    /\ call.after.totalAmount = 20
    /\ Len(call.after.uncommittedEvents) = 1

(* C25: createOrder fails, emits no event and leaves the aggregate, its    *)
(* version, status and uncommitted-event buffer included, as it was when   *)
(* the item list is empty, when the total is <= 0, or when the aggregate   *)
(* already has version > 0.                                                *)
C25_CreateOrderRejects ==
    [][\A items \in AggItemLists, pm \in PaymentMethodInputs :
          (/\ \/ Len(items) = 0
              \/ LineTotals(items, Len(items)) <= 0
              \/ aggObj.version > 0
           /\ AggCreateOrder(items, pm))
          => /\ call'.err # ""
             /\ call'.after = aggObj
             /\ call'.after.uncommittedEvents = aggObj.uncommittedEvents
             /\ aggObj' = aggObj]_vars

(* a createOrder has been refused on an order that exists and has moved on *)
C25_Witness ==
    /\ call.cmd = "createOrder"
    /\ call.err = "Order already exists"
    /\ call.before.version > 1
    /\ call.before.status # PENDING
    /\ call.after = call.before

(* C26: processPayment on an existing order at version N always emits     *)
(* OrderPaymentProcessed at version N+1; when paymentStatus is 'completed' *)
(* and the status is PENDING it also emits                                 *)
(* OrderStatusUpdated(PENDING -> CONFIRMED) at N+2 and the status becomes  *)
(* CONFIRMED; otherwise it emits that one event and the status stays.      *)
C26_ProcessPaymentEvents ==
    [][\A ps \in AggPaymentStatusInputs :
          (aggObj.version > 0 /\ AggProcessPayment(ps))
          => LET emitted == call'.after.uncommittedEvents
                 N == aggObj.version
             IN /\ call'.err = ""
                /\ Len(emitted) >= 1
                /\ emitted[1].type = "OrderPaymentProcessed"
                /\ emitted[1].version = N + 1
                /\ emitted[1].data.paymentStatus = ps
                /\ IF ps = "completed" /\ aggObj.status = PENDING
                   THEN /\ Len(emitted) = 2
                        /\ emitted[2].type = "OrderStatusUpdated"
                        /\ emitted[2].version = N + 2
                        /\ emitted[2].data.oldStatus = PENDING
                        /\ emitted[2].data.newStatus = CONFIRMED
                        /\ call'.after.status = CONFIRMED
                        /\ call'.after.version = N + 2
                   ELSE /\ Len(emitted) = 1
                        /\ call'.after.status = aggObj.status
                        /\ call'.after.version = N + 1]_vars

(* a failed payment on a pending order was followed by a completed one *)
C26_Witness ==
    /\ call.cmd = "processPayment"
    /\ call.arg = "completed"
    /\ call.before.status = PENDING
    /\ call.before.paymentStatus = "failed"
    /\ call.after.status = CONFIRMED
    /\ Len(call.after.uncommittedEvents) = 2

(* C27: shipOrder succeeds only in status PROCESSING: it then emits        *)
(* OrderShipped and OrderStatusUpdated(PROCESSING -> SHIPPED) at           *)
(* consecutive versions and the status becomes SHIPPED; in any other       *)
(* status it fails and emits no event.                                     *)
C27_ShipOnlyProcessing ==
    [][AggShipOrder
          => LET emitted == call'.after.uncommittedEvents
                 N == aggObj.version
             IN IF aggObj.status = PROCESSING
                THEN /\ call'.err = ""
                     /\ Len(emitted) = 2
                     /\ emitted[1].type = "OrderShipped"
                     /\ emitted[1].version = N + 1
                     /\ emitted[2].type = "OrderStatusUpdated"
                     /\ emitted[2].version = N + 2
                     /\ emitted[2].data.oldStatus = PROCESSING
                     /\ emitted[2].data.newStatus = SHIPPED
                     /\ call'.after.status = SHIPPED
                ELSE /\ call'.err # ""
                     /\ emitted = <<>>
                     /\ call'.after = aggObj]_vars

(* an order has been shipped, and shipping it again has been refused *)
C27_Witness ==
    /\ call.cmd = "shipOrder"
    /\ call.before.status = SHIPPED
    /\ call.err # ""
    /\ aggObj.status = SHIPPED
    /\ aggObj.version >= 5

(* C28: cancelOrder fails and emits no event when the status is DELIVERED  *)
(* or CANCELLED; on an order that is PENDING, CONFIRMED or PROCESSING it   *)
(* emits OrderCancelled and OrderStatusUpdated(-> CANCELLED) at            *)
(* consecutive versions and the status becomes CANCELLED.                  *)
C28_CancelOrderEvents ==
    [][AggCancelOrder
          => LET emitted == call'.after.uncommittedEvents
                 N == aggObj.version
             IN /\ aggObj.status \in {DELIVERED, CANCELLED} =>
                      /\ call'.err # ""
                      /\ emitted = <<>>
                      /\ call'.after = aggObj
                /\ (N > 0 /\ aggObj.status \in {PENDING, CONFIRMED, PROCESSING}) =>
                      /\ call'.err = ""
                      /\ Len(emitted) = 2
                      /\ emitted[1].type = "OrderCancelled"
                      /\ emitted[1].version = N + 1
                      /\ emitted[2].type = "OrderStatusUpdated"
                      /\ emitted[2].version = N + 2
                      /\ emitted[2].data.oldStatus = aggObj.status
                      /\ emitted[2].data.newStatus = CANCELLED
                      /\ call'.after.status = CANCELLED]_vars

(* an order in processing has been cancelled, and cancelling it again has  *)
(* been refused                                                            *)
C28_Witness ==
    /\ call.cmd = "cancelOrder"
    /\ call.before.status = CANCELLED
    /\ call.err # ""
    /\ aggObj.status = CANCELLED
    /\ aggObj.version >= 6

(* C34: a command the aggregate refuses (bad input or a violated business  *)
(* invariant) is surfaced as a ValidationError, answered with status 400.  *)
(* The order service rethrows the aggregate's error as it is and the       *)
(* controllers hand it to the global error handler.                        *)
C34_RejectionIsValidationError ==
    call.err # "" =>
        /\ CommandError(call.err).name = "ValidationError"
        /\ errorHandler(CommandError(call.err)) = 400

(* C36: a command that throws leaves the aggregate exactly as it was       *)
(* before the call: its status, its version and its buffer of uncommitted  *)
(* events - cancelOrder, shipOrder and processPayment included, which      *)
(* apply their own event before they call updateStatus.                    *)
C36_RejectionMutatesNothing ==
    call.err # "" => call.after = call.before

----------------------------------------------------------------------------
(* Properties of the inventory consumers (SpecInv)                         *)

RECURSIVE SumMoved(_, _, _)
SumMoved(movements, type, reference) ==
    IF movements = <<>> THEN 0
    ELSE (IF Head(movements).type = type /\ Head(movements).reference = reference
          THEN Head(movements).quantity ELSE 0)
         + SumMoved(Tail(movements), type, reference)

RECURSIVE OrderedQuantity(_, _)
OrderedQuantity(items, p) ==
    IF items = <<>> THEN 0
    ELSE (IF Head(items).productId = p THEN Head(items).quantity ELSE 0)
         + OrderedQuantity(Tail(items), p)

(* what is reserved under the order's reference and not yet released *)
Unreleased(movements, o) ==
    Max(0, SumMoved(movements, "RESERVED", o) - SumMoved(movements, "RELEASED", o))

(* C7: every stored inventory record has 0 <= reservedQuantity <= quantity *)
(* after every operation, concurrent consumer instances included.          *)
C7_ReservationBound ==
    \A p \in DOMAIN inventory :
        /\ 0 <= inventory[p].reservedQuantity
        /\ inventory[p].reservedQuantity <= inventory[p].quantity

(* C8: however often the OrderCreated event of an order is handled, what   *)
(* is reserved for a product under reference = orderId is what one         *)
(* handling reserves: the RESERVED movements of the order never add up to  *)
(* more than the order's items of that product.                            *)
C8_NoDoubleReservation ==
    \A o \in Orders : \A p \in DOMAIN inventory :
        SumMoved(inventory[p].movements, "RESERVED", o)
            <= OrderedQuantity(OrderCatalog[o], p)

(* C9: handling OrderCancelled of order o lowers each product's            *)
(* reservedQuantity by exactly what is reserved under reference o and not  *)
(* yet released: nothing on a second delivery, nothing of other orders,    *)
(* and every line item of the order.                                       *)
C9_CancelReleasesExactly ==
    [][\A c \in Insts, o \in Orders :
          (/\ HandleOrderCancelled(c, o)
           /\ releaseOrderReservation(inventory, projection[o].items, o).err = "")
          => \A p \in DOMAIN inventory :
                inventory[p].reservedQuantity - inventory'[p].reservedQuantity
                    = Unreleased(inventory[p].movements, o)]_vars

(* the OrderShipped event of the order has been handled: only              *)
(* commitOrderReservation writes OUT movements, at its commit              *)
ShippedBefore(o) ==
    \E p \in DOMAIN inventory :
        \E k \in 1..Len(inventory[p].movements) :
            /\ inventory[p].movements[k].type = "OUT"
            /\ inventory[p].movements[k].reference = o

(* C10: handling the OrderShipped event of an order again leaves every     *)
(* product's quantity and reservedQuantity as the first handling left      *)
(* them.                                                                   *)
C10_ShipIdempotent ==
    [][\A c \in Insts, o \in Orders :
          (HandleOrderShipped(c, o) /\ ShippedBefore(o))
          => \A p \in DOMAIN inventory :
                /\ inventory'[p].quantity = inventory[p].quantity
                /\ inventory'[p].reservedQuantity = inventory[p].reservedQuantity]_vars

(* the stored record of every product of the order holds the order's       *)
(* quantity as reserved stock                                              *)
ItemsReserved(o) ==
    \A k \in 1..Len(OrderCatalog[o]) :
        LET p == OrderCatalog[o][k].productId
        IN /\ p \in DOMAIN inventory
           /\ OrderedQuantity(OrderCatalog[o], p) <= inventory[p].reservedQuantity
           /\ inventory[p].reservedQuantity <= inventory[p].quantity

(* the movements a commit appends to the log of product p: per item of the *)
(* product, the release and then the deduction                             *)
RECURSIVE CommitMovements(_, _, _)
CommitMovements(items, p, o) ==
    IF items = <<>> THEN <<>>
    ELSE (IF Head(items).productId = p
          THEN <<Movement("RELEASED", Head(items).quantity, o),
                 Movement("OUT", Head(items).quantity, o)>>
          ELSE <<>>)
         \o CommitMovements(Tail(items), p, o)

RECURSIVE Moved(_, _)
Moved(movements, type) ==
    IF movements = <<>> THEN 0
    ELSE (IF Head(movements).type = type THEN Head(movements).quantity ELSE 0)
         + Moved(Tail(movements), type)

(* C37: in every stored inventory record reservedQuantity is the sum of    *)
(* the quantities of its RESERVED movements minus the sum of the           *)
(* quantities of its RELEASED movements, whatever the interleaving of the  *)
(* consumer instances.                                                     *)
C37_ReservedMatchesMovements ==
    \A p \in DOMAIN inventory :
        inventory[p].reservedQuantity
            = Moved(inventory[p].movements, "RESERVED")
                - Moved(inventory[p].movements, "RELEASED")

(* the OrderCreated handler of instance c throws at this step: its         *)
(* reserveStock failed, and the message is rejected                        *)
Nacked(c) ==
    \/ ReserveFind(c) /\ inst'[c].pc = "idle"
    \/ ReserveSave(c) /\ validateSave(inst[c].doc) # ""

(* C38: handling OrderCreated is all-or-nothing across the order's items.  *)
(* When reserveStock fails for an item, every product's reservedQuantity   *)
(* is what it was when the handler was entered.                            *)
C38_ReserveAllOrNothing ==
    [][\A c \in Insts :
          Nacked(c) => \A p \in Products :
                          ReservedOf(inventory', p) = inst[c].start[p]]_vars

(* C39: no update is lost between concurrent reservations.  When the       *)
(* reservation of another order (o2, q2 units) of the same product was     *)
(* saved between this handler's read and its own successful save of q      *)
(* units, the stored reservedQuantity ends q2 + q above what was read,     *)
(* both RESERVED movements are in the log, and the two quantities together *)
(* did not exceed what was available.                                      *)
C39_NoLostReservation ==
    [][\A c \in Insts, o2 \in Orders, q2 \in 1..MaxQuantity :
          LET p == inst[c].product
              o == inst[c].order
              q == OrderCatalog[o][inst[c].i].quantity
              base == inst[c].base
          IN (/\ ReserveSave(c)
              /\ validateSave(inst[c].doc) = ""
              /\ o2 # o
              /\ inventory[p].movements
                    = Append(base.movements, Movement("RESERVED", q2, o2)))
             => /\ inventory'[p].reservedQuantity
                      = base.reservedQuantity + q2 + q
                /\ inventory'[p].movements
                      = base.movements
                          \o <<Movement("RESERVED", q2, o2),
                                Movement("RESERVED", q, o)>>
                /\ q2 + q <= availableQuantity(base)]_vars

====
